---- MODULE Spec2Model ----
(***************************************************************************)
(* Entromatica: state identity (state.rs), the rule evaluation cache       *)
(* (cache.rs) and rule evaluation (rules.rs).                              *)
(*                                                                         *)
(* A hashbrown HashMap is modelled as the sequence of its entries in the   *)
(* order its iterator yields them: the order is fixed for one map value    *)
(* (and kept by clone and by in-place mutation through get_mut), but two   *)
(* maps with the same entries may yield them in different orders.          *)
(***************************************************************************)
EXTENDS Integers, Sequences, FiniteSets, TLC

VARIABLES cache, possible_states, reachable_states, cur, other, res, hist

vars == <<cache, possible_states, reachable_states, cur, other, res, hist>>

(***************************************************************************)
(* Bounds and universes                                                    *)
(***************************************************************************)
\* parameter values (the type T / Amount) are 0..MaxValue
MaxValue == 1
\* a state of the universe holds at most MaxParams parameters in total
MaxParams == 2

EntityNames == {"A", "B"}
ParameterNames == {"p", "q"}
Values == 0..MaxValue

\* Option<T>
None == <<>>
Some(x) == <<x>>
IsSome(o) == Len(o) = 1
Unwrap(o) == o[1]

\* Result<T, E>
Ok(v) == [ok |-> TRUE, val |-> v]
Err(e) == [ok |-> FALSE, err |-> e]

Range(f) == {f[i] : i \in DOMAIN f}

\* every sequence that lists each element of S exactly once
Orderings(S) ==
    {f \in [1..Cardinality(S) -> S] : \A i, j \in 1..Cardinality(S) : f[i] = f[j] => i = j}

(***************************************************************************)
(* Entity and State (state.rs)                                             *)
(***************************************************************************)
\* Entity { resources: HashMap<ResourceName, Amount> }: the entries in iteration order
Entity ==
    UNION {UNION {{[i \in 1..Cardinality(P) |-> <<o[i], v[o[i]]>>] : v \in [P -> Values]}
                  : o \in Orderings(P)} : P \in SUBSET ParameterNames}

\* State { entities: HashMap<EntityName, Entity> }: the entries in iteration order
AllStates ==
    UNION {UNION {{[i \in 1..Cardinality(N) |-> <<o[i], e[o[i]]>>] : e \in [N -> Entity]}
                  : o \in Orderings(N)} : N \in SUBSET EntityNames}

RECURSIVE ParamCount(_)
ParamCount(s) == IF s = <<>> THEN 0 ELSE Len(s[1][2]) + ParamCount(Tail(s))

State == {s \in AllStates : ParamCount(s) <= MaxParams}

Keys(m) == {m[i][1] : i \in DOMAIN m}
IndexOf(m, k) == CHOOSE i \in DOMAIN m : m[i][1] = k

\* the map as an unordered mapping: what the entries are, whatever their order
EntityAsMap(e) == [p \in Keys(e) |-> e[IndexOf(e, p)][2]]
AsMap(s) == [n \in Keys(s) |-> EntityAsMap(s[IndexOf(s, n)][2])]

\* State::new / State::default: no entities
State_new == <<>>

\* HashMap::get / get_mut on the entities, the resources
State_entity(s, entity_name) ==
    IF entity_name \in Keys(s)
    THEN Ok(s[IndexOf(s, entity_name)][2])
    ELSE Err([kind |-> "NotFound", key |-> entity_name])

Entity_resource(e, resource_name) ==
    IF resource_name \in Keys(e)
    THEN Ok(e[IndexOf(e, resource_name)][2])
    ELSE Err([kind |-> "NotFound", key |-> resource_name])

(***************************************************************************)
(* Hashing (state.rs, impl Hash for State; StateHash::from_state)          *)
(*                                                                         *)
(* DefaultHasher absorbs what is written to it in order.  Its 64-bit       *)
(* output is modelled without collisions: the hasher's value is the        *)
(* numeral, in radix Radix, of the digits written so far.                  *)
(***************************************************************************)
NameCode(n) ==
    CASE n = "A" -> 0 [] n = "B" -> 1 [] n = "p" -> 0 [] n = "q" -> 1

Radix == Cardinality(EntityNames) * Cardinality(ParameterNames) * (MaxValue + 1) + 1

\* DefaultHasher::new()
DefaultHasher_new == 0

\* (name, resource_name, amount).hash(state): one write of the triple
Hasher_write(h, name, resource_name, amount) ==
    h * Radix
      + (NameCode(name) * Cardinality(ParameterNames) + NameCode(resource_name)) * (MaxValue + 1)
      + amount + 1

\* the inner loop of State::hash: the resources of one entity, in iteration order
RECURSIVE HashResources(_, _, _)
HashResources(h, name, resources) ==
    IF resources = <<>> THEN h
    ELSE HashResources(Hasher_write(h, name, resources[1][1], resources[1][2]),
                       name, Tail(resources))

\* impl Hash for State: the entities in iteration order
RECURSIVE State_hash(_, _)
State_hash(s, h) ==
    IF s = <<>> THEN h
    ELSE State_hash(Tail(s), HashResources(h, s[1][1], s[1][2]))

\* StateHash::from_state (StateHash::new(&state) in rules.rs)
StateHash_from_state(s) == State_hash(s, DefaultHasher_new)

\* impl PartialEq for State: the two hashes are compared
State_eq(a, b) == State_hash(a, DefaultHasher_new) = State_hash(b, DefaultHasher_new)

(***************************************************************************)
(* RuleCache and Cache (cache.rs)                                          *)
(*                                                                         *)
(* A map keyed by StateHash or RuleName is a function on the keys it       *)
(* holds.  A method taking &mut self yields [self |-> the receiver after   *)
(* the call, ret |-> what the call returns].                               *)
(***************************************************************************)
RuleNames == {"r1", "r2"}

EmptyMap == [k \in {} |-> 0]
MapPut(m, k, v) == [x \in DOMAIN m \cup {k} |-> IF x = k THEN v ELSE m[x]]

\* RuleCache::new
RuleCache_new == [condition |-> EmptyMap, actions |-> EmptyMap]

\* Cache::new
Cache_new == EmptyMap

\* RuleCache::condition
RuleCache_condition(rc, base_state_hash) ==
    IF base_state_hash \in DOMAIN rc.condition
    THEN Ok(rc.condition[base_state_hash])
    ELSE Err([kind |-> "ConditionNotFound", base_state_hash |-> base_state_hash])


\* action that answers an absent entry with the base hash itself
RuleCache_action_default(rc, base_state_hash) ==
    IF base_state_hash \in DOMAIN rc.actions
    THEN Ok(rc.actions[base_state_hash])
    ELSE Ok(base_state_hash)

\* RuleCache::action
RuleCache_action(rc, base_state_hash) ==
    IF base_state_hash \in DOMAIN rc.actions
    THEN Ok(rc.actions[base_state_hash])
    ELSE Err([kind |-> "ActionNotFound", base_state_hash |-> base_state_hash])

\* add_condition without the contains_key check: the insert overwrites
RuleCache_add_condition_overwrite(rc, base_state_hash, applies) ==
    [self |-> [rc EXCEPT !.condition = MapPut(rc.condition, base_state_hash, applies)],
     ret |-> Ok(<<>>)]


\* add_condition without the comparison of the stored value: any second write fails
RuleCache_add_condition_strict(rc, base_state_hash, applies) ==
    IF base_state_hash \in DOMAIN rc.condition
    THEN [self |-> rc,
          ret |-> Err([kind |-> "ConditionAlreadyExists",
                       base_state_hash |-> base_state_hash, applies |-> applies])]
    ELSE [self |-> [rc EXCEPT !.condition = MapPut(rc.condition, base_state_hash, applies)],
          ret |-> Ok(<<>>)]

\* RuleCache::add_condition
RuleCache_add_condition(rc, base_state_hash, applies) ==
    IF base_state_hash \in DOMAIN rc.condition
    THEN IF rc.condition[base_state_hash] = applies
         THEN [self |-> rc, ret |-> Ok(<<>>)]
         ELSE [self |-> rc,
               ret |-> Err([kind |-> "ConditionAlreadyExists",
                            base_state_hash |-> base_state_hash, applies |-> applies])]
    ELSE [self |-> [rc EXCEPT !.condition = MapPut(rc.condition, base_state_hash, applies)],
          ret |-> Ok(<<>>)]

\* add_action without the comparison of the stored successor: any second write fails
RuleCache_add_action_strict(rc, base_state_hash, new_state_hash) ==
    IF base_state_hash \in DOMAIN rc.actions
    THEN [self |-> rc,
          ret |-> Err([kind |-> "ActionAlreadyExists",
                       base_state_hash |-> base_state_hash,
                       new_state_hash |-> new_state_hash])]
    ELSE [self |-> [rc EXCEPT !.actions = MapPut(rc.actions, base_state_hash, new_state_hash)],
          ret |-> Ok(<<>>)]

\* add_action that inserts before it compares: a differing second write
\* fails and leaves the new successor behind
RuleCache_add_action_clobbering(rc, base_state_hash, new_state_hash) ==
    IF base_state_hash \in DOMAIN rc.actions /\ rc.actions[base_state_hash] # new_state_hash
    THEN [self |-> [rc EXCEPT !.actions = MapPut(rc.actions, base_state_hash, new_state_hash)],
          ret |-> Err([kind |-> "ActionAlreadyExists",
                       base_state_hash |-> base_state_hash,
                       new_state_hash |-> new_state_hash])]
    ELSE [self |-> [rc EXCEPT !.actions = MapPut(rc.actions, base_state_hash, new_state_hash)],
          ret |-> Ok(<<>>)]

\* RuleCache::add_action
RuleCache_add_action(rc, base_state_hash, new_state_hash) ==
    IF base_state_hash \in DOMAIN rc.actions
    THEN IF rc.actions[base_state_hash] = new_state_hash
         THEN [self |-> rc, ret |-> Ok(<<>>)]
         ELSE [self |-> rc,
               ret |-> Err([kind |-> "ActionAlreadyExists",
                            base_state_hash |-> base_state_hash,
                            new_state_hash |-> new_state_hash])]
    ELSE [self |-> [rc EXCEPT !.actions = MapPut(rc.actions, base_state_hash, new_state_hash)],
          ret |-> Ok(<<>>)]

\* Cache::rule, Cache::rule_mut
Cache_rule(c, rule_name) ==
    IF rule_name \in DOMAIN c
    THEN Ok(c[rule_name])
    ELSE Err([kind |-> "RuleNotFound", rule_name |-> rule_name])

\* Cache::add_rule
Cache_add_rule(c, rule_name) ==
    IF rule_name \in DOMAIN c
    THEN [self |-> c, ret |-> Err([kind |-> "RuleAlreadyExists", rule_name |-> rule_name])]
    ELSE [self |-> MapPut(c, rule_name, RuleCache_new), ret |-> Ok(<<>>)]

\* Cache::condition
Cache_condition(c, rule_name, base_state_hash) ==
    IF Cache_rule(c, rule_name).ok
    THEN RuleCache_condition(Cache_rule(c, rule_name).val, base_state_hash)
    ELSE Cache_rule(c, rule_name)

\* Cache::contains_condition
Cache_contains_condition(c, rule_name, base_state_hash) ==
    IF Cache_rule(c, rule_name).ok
    THEN Ok(base_state_hash \in DOMAIN Cache_rule(c, rule_name).val.condition)
    ELSE Ok(FALSE)


\* contains_action that hands on the error of a missing rule
Cache_contains_action_propagating(c, rule_name, base_state_hash) ==
    IF Cache_rule(c, rule_name).ok
    THEN Ok(base_state_hash \in DOMAIN Cache_rule(c, rule_name).val.actions)
    ELSE Cache_rule(c, rule_name)

\* Cache::contains_action
Cache_contains_action(c, rule_name, base_state_hash) ==
    IF Cache_rule(c, rule_name).ok
    THEN Ok(base_state_hash \in DOMAIN Cache_rule(c, rule_name).val.actions)
    ELSE Ok(FALSE)

\* Cache::action
Cache_action(c, rule_name, base_state_hash) ==
    IF Cache_rule(c, rule_name).ok
    THEN RuleCache_action(Cache_rule(c, rule_name).val, base_state_hash)
    ELSE Cache_rule(c, rule_name)

\* Cache::add_action
Cache_add_action(c, rule_name, base_state_hash, new_state_hash) ==
    LET withRule == IF Cache_rule(c, rule_name).ok THEN c
                    ELSE Cache_add_rule(c, rule_name).self
        r == RuleCache_add_action(withRule[rule_name], base_state_hash, new_state_hash)
    IN  [self |-> [withRule EXCEPT ![rule_name] = r.self], ret |-> r.ret]


\* add_condition that hands on the error of a missing rule
Cache_add_condition_no_create(c, rule_name, base_state_hash, applies) ==
    IF Cache_rule(c, rule_name).ok
    THEN LET r == RuleCache_add_condition(c[rule_name], base_state_hash, applies)
         IN  [self |-> [c EXCEPT ![rule_name] = r.self], ret |-> r.ret]
    ELSE [self |-> c, ret |-> Cache_rule(c, rule_name)]

\* Cache::add_condition
Cache_add_condition(c, rule_name, base_state_hash, applies) ==
    LET withRule == IF Cache_rule(c, rule_name).ok THEN c
                    ELSE Cache_add_rule(c, rule_name).self
        r == RuleCache_add_condition(withRule[rule_name], base_state_hash, applies)
    IN  [self |-> [withRule EXCEPT ![rule_name] = r.self], ret |-> r.ret]

\* ConditionCacheUpdate::new, ActionCacheUpdate::new
ConditionCacheUpdate_new(rule_name, base_state_hash, applies) ==
    [rule_name |-> rule_name, base_state_hash |-> base_state_hash, applies |-> applies]

ActionCacheUpdate_new(rule_name, base_state_hash, new_state_hash) ==
    [rule_name |-> rule_name, base_state_hash |-> base_state_hash,
     new_state_hash |-> new_state_hash]

\* apply_condition_update that leaves the cache as it is
Cache_apply_condition_update_dropped(c, update) == [self |-> c, ret |-> Ok(<<>>)]

\* Cache::apply_condition_update
Cache_apply_condition_update(c, update) ==
    Cache_add_condition(c, update.rule_name, update.base_state_hash, update.applies)

\* apply_action_update that leaves the cache as it is
Cache_apply_action_update_dropped(c, update) == [self |-> c, ret |-> Ok(<<>>)]

\* Cache::apply_action_update
Cache_apply_action_update(c, update) ==
    Cache_add_action(c, update.rule_name, update.base_state_hash, update.new_state_hash)

\* the body of Cache::merge over the other cache's entries in the order its
\* iterators yield them: the first failing add returns, the adds before it stay
RECURSIVE MergeWrites(_, _)
MergeWrites(c, writes) ==
    IF writes = <<>> THEN [self |-> c, ret |-> Ok(<<>>)]
    ELSE LET w == writes[1]
             r == IF w.kind = "condition"
                  THEN Cache_add_condition(c, w.rule_name, w.base_state_hash, w.value)
                  ELSE Cache_add_action(c, w.rule_name, w.base_state_hash, w.value)
         IN  IF r.ret.ok THEN MergeWrites(r.self, Tail(writes)) ELSE r


\* the loop body with the successor's node not looked up
GraphStep_unchecked(c, nodes, edges, base_state_hash, rule_name) ==
    IF ~Cache_condition(c, rule_name, base_state_hash).ok
    THEN Err(Cache_condition(c, rule_name, base_state_hash).err)
    ELSE IF ~Cache_condition(c, rule_name, base_state_hash).val
    THEN Ok(edges)
    ELSE IF ~Cache_action(c, rule_name, base_state_hash).ok
    THEN Err(Cache_action(c, rule_name, base_state_hash).err)
    ELSE Ok(Append(edges, <<base_state_hash,
                            Cache_action(c, rule_name, base_state_hash).val, rule_name>>))

\* the body of the inner loop of Cache::graph: the edge of one rule at one node
GraphStep(c, nodes, edges, base_state_hash, rule_name) ==
    IF ~Cache_condition(c, rule_name, base_state_hash).ok
    THEN Err(Cache_condition(c, rule_name, base_state_hash).err)
    ELSE IF ~Cache_condition(c, rule_name, base_state_hash).val
    THEN Ok(edges)
    ELSE IF ~Cache_action(c, rule_name, base_state_hash).ok
    THEN Err(Cache_action(c, rule_name, base_state_hash).err)
    ELSE IF Cache_action(c, rule_name, base_state_hash).val \notin nodes
    THEN Err([kind |-> "StateNotFound",
              state_hash |-> Cache_action(c, rule_name, base_state_hash).val])
    ELSE Ok(Append(edges, <<base_state_hash,
                            Cache_action(c, rule_name, base_state_hash).val, rule_name>>))

\* the two loops of Cache::graph over the visits <<node, rule>> in order,
\* left at the first error
RECURSIVE GraphLoop(_, _, _, _)
GraphLoop(c, nodes, edges, visits) ==
    IF visits = <<>> THEN Ok(edges)
    ELSE LET r == GraphStep(c, nodes, edges, visits[1][1], visits[1][2])
         IN  IF r.ok THEN GraphLoop(c, nodes, r.val, Tail(visits)) ELSE r

\* the visits of the nested loops: the nodes in the order bo, for each of them
\* the rules in the order ro
Visits(bo, ro) ==
    [k \in 1..(Len(bo) * Len(ro)) |->
        <<bo[((k - 1) \div Len(ro)) + 1], ro[((k - 1) % Len(ro)) + 1]>>]

\* Cache::graph: every result it can return; no is the order in which
\* possible_states is iterated (the order of the node indices), bo the order
\* in which the map `nodes` is, ro the order in which self.rules is
Cache_graph(c, ps) ==
    {LET r == GraphLoop(c, DOMAIN ps, <<>>, Visits(bo, ro))
     IN  IF r.ok THEN Ok([nodes |-> no, edges |-> r.val]) ELSE r :
        no \in Orderings(DOMAIN ps), bo \in Orderings(DOMAIN ps), ro \in Orderings(DOMAIN c)}

\* the adds Cache::merge makes for one rule of the other cache: its conditions
\* in the order co, then its actions in the order ao
RuleWrites(rule_name, rc, co, ao) ==
    [i \in 1..Len(co) |-> [kind |-> "condition", rule_name |-> rule_name,
                           base_state_hash |-> co[i], value |-> rc.condition[co[i]]]]
    \o
    [i \in 1..Len(ao) |-> [kind |-> "action", rule_name |-> rule_name,
                           base_state_hash |-> ao[i], value |-> rc.actions[ao[i]]]]

RECURSIVE ConcatAll(_)
ConcatAll(ss) == IF ss = <<>> THEN <<>> ELSE ss[1] \o ConcatAll(Tail(ss))

\* every order in which Cache::merge can meet the entries of the other cache
MergeOrders(oc) ==
    {ConcatAll([i \in 1..Len(ro) |-> RuleWrites(ro[i], oc[ro[i]], co[ro[i]], ao[ro[i]])]) :
        ro \in Orderings(DOMAIN oc),
        co \in {f \in [DOMAIN oc -> UNION {Orderings(DOMAIN oc[n].condition) : n \in DOMAIN oc}] :
                   \A n \in DOMAIN oc : f[n] \in Orderings(DOMAIN oc[n].condition)},
        ao \in {f \in [DOMAIN oc -> UNION {Orderings(DOMAIN oc[n].actions) : n \in DOMAIN oc}] :
                   \A n \in DOMAIN oc : f[n] \in Orderings(DOMAIN oc[n].actions)}}


\* a merge that passes over the entries the receiver refuses
RECURSIVE Cache_merge_lenient(_, _)
Cache_merge_lenient(c, writes) ==
    IF writes = <<>> THEN [self |-> c, ret |-> Ok(<<>>)]
    ELSE LET r == MergeWrites(c, <<writes[1]>>)
         IN  Cache_merge_lenient(r.self, Tail(writes))

\* Cache::merge, the other cache's entries met in the order `writes`
Cache_merge(c, writes) == MergeWrites(c, writes)

(***************************************************************************)
(* PossibleStates (state.rs)                                               *)
(***************************************************************************)
\* PossibleStates::new
PossibleStates_new == EmptyMap

\* PossibleStates::state
PossibleStates_state(ps, state_hash) ==
    IF state_hash \in DOMAIN ps THEN Some(ps[state_hash]) ELSE None


\* append_state that accepts a state equal to the stored one
PossibleStates_append_state_idempotent(ps, state_hash, state) ==
    IF IsSome(PossibleStates_state(ps, state_hash)) /\ ps[state_hash] # state
    THEN [self |-> ps,
          ret |-> Err([kind |-> "AlreadyExists", key |-> state_hash, value |-> state])]
    ELSE [self |-> MapPut(ps, state_hash, state), ret |-> Ok(<<>>)]


\* append_state through HashMap::insert alone: a held hash is overwritten
PossibleStates_append_state_overwrite(ps, state_hash, state) ==
    [self |-> MapPut(ps, state_hash, state), ret |-> Ok(<<>>)]

\* PossibleStates::append_state
PossibleStates_append_state(ps, state_hash, state) ==
    IF IsSome(PossibleStates_state(ps, state_hash))
    THEN [self |-> ps,
          ret |-> Err([kind |-> "AlreadyExists", key |-> state_hash, value |-> state])]
    ELSE [self |-> MapPut(ps, state_hash, state), ret |-> Ok(<<>>)]


\* append_states that passes over the hashes the receiver holds
RECURSIVE PossibleStates_append_states_lenient(_, _)
PossibleStates_append_states_lenient(ps, writes) ==
    IF writes = <<>> THEN [self |-> ps, ret |-> Ok(<<>>)]
    ELSE PossibleStates_append_states_lenient(
             PossibleStates_append_state(ps, writes[1][1], writes[1][2]).self, Tail(writes))

\* PossibleStates::append_states, the entries of the other pool met in the
\* order `writes` of <<state_hash, state>>
RECURSIVE PossibleStates_append_states(_, _)
PossibleStates_append_states(ps, writes) ==
    IF writes = <<>> THEN [self |-> ps, ret |-> Ok(<<>>)]
    ELSE LET r == PossibleStates_append_state(ps, writes[1][1], writes[1][2])
         IN  IF r.ret.ok THEN PossibleStates_append_states(r.self, Tail(writes)) ELSE r

\* PossibleStates::iter: the entries in one of the orders the map can have
PossibleStates_iter(ps) ==
    {[i \in 1..Len(o) |-> <<o[i], ps[o[i]]>>] : o \in Orderings(DOMAIN ps)}

\* PossibleStates::len
PossibleStates_len(ps) == Cardinality(DOMAIN ps)

\* PossibleStates::contains
PossibleStates_contains(ps, state_hash) == state_hash \in DOMAIN ps


(***************************************************************************)
(* Probability and ReachableStates (state.rs)                              *)
(***************************************************************************)
\* Probability is a binary floating-point number (f64): here a float of
\* MantissaBits significant bits, held as its count of units of 1/One; sums
\* are rounded to the nearest float, ties to the even mantissa
MantissaBits == 3
One == 2 ^ (MantissaBits + 1)

RECURSIVE BitLength(_)
BitLength(x) == IF x = 0 THEN 0 ELSE 1 + BitLength(x \div 2)

\* the float nearest to the magnitude x
RoundMagnitude(x) ==
    IF x < 2 ^ MantissaBits THEN x
    ELSE LET q == 2 ^ (BitLength(x) - MantissaBits)
             lower == (x \div q) * q
         IN  IF 2 * (x - lower) < q THEN lower
             ELSE IF 2 * (x - lower) > q THEN lower + q
             ELSE IF (x \div q) % 2 = 0 THEN lower
             ELSE lower + q

\* the float nearest to the real number x
RoundToFloat(x) == IF x < 0 THEN 0 - RoundMagnitude(0 - x) ELSE RoundMagnitude(x)

\* Probability + Probability
Probability_add(a, b) == RoundToFloat(a + b)

\* ReachableStates::new
ReachableStates_new == EmptyMap

\* append_state without the test of the sum against 1
ReachableStates_append_state_unchecked(rs, state_hash, state_probability) ==
    IF state_hash \in DOMAIN rs
    THEN [self |-> [rs EXCEPT ![state_hash] =
                        Probability_add(rs[state_hash], state_probability)],
          ret |-> Ok(<<>>)]
    ELSE [self |-> MapPut(rs, state_hash, state_probability), ret |-> Ok(<<>>)]

\* ReachableStates::append_state
ReachableStates_append_state(rs, state_hash, state_probability) ==
    IF state_hash \in DOMAIN rs
    THEN IF Probability_add(rs[state_hash], state_probability) > One
         THEN [self |-> rs,
               ret |-> Err([kind |-> "OutOfRange",
                            value |-> Probability_add(rs[state_hash], state_probability),
                            min |-> 0, max |-> One])]
         ELSE [self |-> [rs EXCEPT ![state_hash] =
                             Probability_add(rs[state_hash], state_probability)],
               ret |-> Ok(<<>>)]
    ELSE [self |-> MapPut(rs, state_hash, state_probability), ret |-> Ok(<<>>)]

\* append_states that inserts each entry in place of the mass already stored
RECURSIVE ReachableStates_append_states_replacing(_, _)
ReachableStates_append_states_replacing(rs, writes) ==
    IF writes = <<>> THEN [self |-> rs, ret |-> Ok(<<>>)]
    ELSE ReachableStates_append_states_replacing(
             MapPut(rs, writes[1][1], writes[1][2]), Tail(writes))

\* ReachableStates::append_states, the entries of the other distribution met
\* in the order `writes` of <<state_hash, state_probability>>
RECURSIVE ReachableStates_append_states(_, _)
ReachableStates_append_states(rs, writes) ==
    IF writes = <<>> THEN [self |-> rs, ret |-> Ok(<<>>)]
    ELSE LET r == ReachableStates_append_state(rs, writes[1][1], writes[1][2])
         IN  IF r.ret.ok THEN ReachableStates_append_states(r.self, Tail(writes)) ELSE r

\* ReachableStates::iter: the entries in one of the orders the map can have
ReachableStates_iter(rs) ==
    {[i \in 1..Len(o) |-> <<o[i], rs[o[i]]>>] : o \in Orderings(DOMAIN rs)}

\* the sums a parallel reduction of the masses at S can return: the masses
\* are split and added in any grouping
RECURSIVE FloatSums(_, _)
FloatSums(rs, S) ==
    IF S = {} THEN {0}
    ELSE IF Cardinality(S) = 1 THEN {rs[h] : h \in S}
    ELSE UNION {{Probability_add(x, y) : x \in FloatSums(rs, A), y \in FloatSums(rs, S \ A)} :
                   A \in (SUBSET S) \ {{}, S}}

\* ReachableStates::probability_sum: every value it can return
ReachableStates_probability_sum(rs) == FloatSums(rs, DOMAIN rs)


\* the masses whose logarithm is a whole number: the powers of two
HasExactLog2(x) == x > 0 /\ 2 ^ (BitLength(x) - 1) = x

\* f64::log2 of the mass x / One, for a mass that is a power of two
Log2(x) == (BitLength(x) - 1) - (MantissaBits + 1)

\* the term of entropy without the negation of the logarithm
EntropyTerm_unnegated(x) ==
    IF x > 0 THEN RoundToFloat(x * Log2(x)) ELSE 0

\* the closure of entropy: p * -log2(p) for p > 0, and 0 otherwise
EntropyTerm(x) ==
    IF x > 0 THEN RoundToFloat(x * (0 - Log2(x))) ELSE 0

\* ReachableStates::entropy: every value the parallel sum of the terms can
\* return, in units of 1/One bit
ReachableStates_entropy(rs) ==
    FloatSums([h \in DOMAIN rs |-> EntropyTerm(rs[h])], DOMAIN rs)

(***************************************************************************)
(* Rule (rules.rs)                                                         *)
(***************************************************************************)
\* the fn(State) -> RuleApplies a Condition::Function holds: two sample functions
ConditionFns == {"has_A", "A_p_is_max"}
CallCondition(f, state) ==
    CASE f = "has_A" -> "A" \in Keys(state)
      [] f = "A_p_is_max" ->
            /\ "A" \in Keys(state)
            /\ "p" \in Keys(State_entity(state, "A").val)
            /\ Entity_resource(State_entity(state, "A").val, "p").val = MaxValue

\* the fn(State) -> HashMap<EntityName, (ParameterName, Parameter)> an
\* Action::SetFunction holds: two sample functions, their result as a function
\* on the entity names it holds
MutationFns == {"set_A_p", "reset_q"}
CallMutations(f, state) ==
    CASE f = "set_A_p" -> [n \in {"A"} |-> <<"p", MaxValue>>]
      [] f = "reset_q" -> [n \in Keys(state) |-> <<"q", 0>>]
      [] f = "raise_A_clear_B" ->
            [n \in Keys(state) |-> IF n = "A" THEN <<"p", MaxValue>> ELSE <<"p", 0>>]

\* enum Condition
Condition ==
    {[tag |-> "Never"], [tag |-> "Always"]} \cup {[tag |-> "Function", f |-> f] : f \in ConditionFns}

\* ProbabilityWeight, in tenths
Weights == {0, 10}

\* the entities the sample InsertEntity actions insert
InsertedEntities == {<<>>, <<<<"p", MaxValue>>>>}

\* enum Action
Action ==
    {[tag |-> "None"]}
    \cup {[tag |-> "SetParameter", entity_name |-> e, parameter |-> p, parameter_value |-> v] :
             e \in EntityNames, p \in ParameterNames, v \in Values}
    \cup {[tag |-> "SetFunction", f |-> f] : f \in MutationFns}
    \cup {[tag |-> "InsertEntity", entity_name |-> e, entity |-> ent] :
             e \in EntityNames, ent \in InsertedEntities}

\* Rule::new
Rule_new(condition, probability_weight, action) ==
    [condition |-> condition, weight |-> probability_weight, action |-> action]

\* the assignment through the &mut of Entity::resource_mut: the entry keeps its place
Entity_assign(e, resource_name, amount) ==
    [e EXCEPT ![IndexOf(e, resource_name)] = <<resource_name, amount>>]

\* SetParameter through HashMap::insert: an absent parameter is created
SetParameter_inserting(base_state, entity_name, parameter, parameter_value) ==
    IF ~State_entity(base_state, entity_name).ok
    THEN Err(State_entity(base_state, entity_name).err)
    ELSE LET e == State_entity(base_state, entity_name).val
         IN  Ok([base_state EXCEPT ![IndexOf(base_state, entity_name)] =
                    <<entity_name,
                      IF parameter \in Keys(e)
                      THEN Entity_assign(e, parameter, parameter_value)
                      ELSE Append(e, <<parameter, parameter_value>>)>>])

\* the lines of Action::SetParameter: entity_mut(..)?, parameter_mut(..)?, the assignment
SetParameter(base_state, entity_name, parameter, parameter_value) ==
    IF ~State_entity(base_state, entity_name).ok
    THEN Err(State_entity(base_state, entity_name).err)
    ELSE IF ~Entity_resource(State_entity(base_state, entity_name).val, parameter).ok
    THEN Err(Entity_resource(State_entity(base_state, entity_name).val, parameter).err)
    ELSE Ok([base_state EXCEPT ![IndexOf(base_state, entity_name)] =
                <<entity_name,
                  Entity_assign(State_entity(base_state, entity_name).val,
                                parameter, parameter_value)>>])

\* State::set_parameter: the assignment of one mutation of a SetFunction
State_set_parameter(s, target, parameter, amount) ==
    SetParameter(s, target, parameter, amount)

\* State::insert_entity: HashMap::insert; a present key keeps its place, a new
\* key lands anywhere and the table may be rebuilt in any order
State_insert_entity(s, entity_name, entity) ==
    IF entity_name \in Keys(s)
    THEN {[s EXCEPT ![IndexOf(s, entity_name)] = <<entity_name, entity>>]}
    ELSE {[i \in 1..Len(o) |->
              IF o[i] = entity_name THEN <<entity_name, entity>>
              ELSE <<o[i], s[IndexOf(s, o[i])][2]>>] :
             o \in Orderings(Keys(s) \cup {entity_name})}

\* the loop leaving after its first assignment
SetFunctionLoop_first_only(new_state, mutations, targets) ==
    IF targets = <<>> THEN Ok(new_state)
    ELSE State_set_parameter(new_state, targets[1],
                             mutations[targets[1]][1], mutations[targets[1]][2])

\* the loop of Action::SetFunction over the mutations in the order `targets`
RECURSIVE SetFunctionLoop(_, _, _)
SetFunctionLoop(new_state, mutations, targets) ==
    IF targets = <<>> THEN Ok(new_state)
    ELSE LET r == State_set_parameter(new_state, targets[1],
                                      mutations[targets[1]][1], mutations[targets[1]][2])
         IN  IF r.ok THEN SetFunctionLoop(r.val, mutations, Tail(targets)) ELSE r


\* the match with the arm of InsertEntity leaving the state as it is
NewStates_insert_skipped(action, base_state) ==
    CASE action.tag = "None" -> {Ok(base_state)}
      [] action.tag = "SetParameter" ->
            {SetParameter(base_state, action.entity_name, action.parameter,
                          action.parameter_value)}
      [] action.tag = "SetFunction" ->
            {SetFunctionLoop(base_state, CallMutations(action.f, base_state), targets) :
                targets \in Orderings(DOMAIN CallMutations(action.f, base_state))}
      [] action.tag = "InsertEntity" -> {Ok(base_state)}

\* the match on self.action in Rule::apply: every new_state it can yield
NewStates(action, base_state) ==
    CASE action.tag = "None" -> {Ok(base_state)}
      [] action.tag = "SetParameter" ->
            {SetParameter(base_state, action.entity_name, action.parameter,
                          action.parameter_value)}
      [] action.tag = "SetFunction" ->
            {SetFunctionLoop(base_state, CallMutations(action.f, base_state), targets) :
                targets \in Orderings(DOMAIN CallMutations(action.f, base_state))}
      [] action.tag = "InsertEntity" ->
            {Ok(s) : s \in State_insert_entity(base_state, action.entity_name, action.entity)}

\* the match with the arms of Never and Always swapped
EvalCondition_swapped(condition, state) ==
    CASE condition.tag = "Never" -> TRUE
      [] condition.tag = "Always" -> FALSE
      [] condition.tag = "Function" -> CallCondition(condition.f, state)

\* the match on self.condition in Rule::applies
EvalCondition(condition, state) ==
    CASE condition.tag = "Never" -> FALSE
      [] condition.tag = "Always" -> TRUE
      [] condition.tag = "Function" -> CallCondition(condition.f, state)

\* the miss branch of Rule::applies
Applies_miss(rule, rule_name, base_state_hash, state) ==
    LET rule_applies == EvalCondition(rule.condition, state)
    IN  [ret |-> Ok([applies |-> rule_applies,
                     update |-> Some(ConditionCacheUpdate_new(
                                    rule_name, base_state_hash, rule_applies))]),
         calls |-> {"contains_condition"}
                     \cup IF rule.condition.tag = "Function" THEN {"function"} ELSE {}]

\* applies that evaluates the condition whether or not the cache holds it
Applies_cached_never_hit(rule, c, rule_name, state) ==
    Applies_miss(rule, rule_name, StateHash_from_state(state), state)

\* Rule::applies past the weight test: the cached value on a hit, the
\* evaluation on a miss
Applies_cached(rule, c, rule_name, state) ==
    LET base_state_hash == StateHash_from_state(state)
    IN  IF Cache_contains_condition(c, rule_name, base_state_hash).val
        THEN [ret |-> Ok([applies |-> Cache_condition(c, rule_name, base_state_hash).val,
                          update |-> None]),
              calls |-> {"contains_condition", "condition"}]
        ELSE Applies_miss(rule, rule_name, base_state_hash, state)

\* applies with the weight test left out
Rule_applies_no_weight_test(rule, c, rule_name, state) ==
    Applies_cached(rule, c, rule_name, state)

\* Rule::applies: ret is what it returns, calls what it consulted on the way
\* (the cache's contains_condition and condition, the condition function)
Rule_applies(rule, c, rule_name, state) ==
    IF rule.weight = 0
    THEN [ret |-> Ok([applies |-> FALSE, update |-> None]), calls |-> {}]
    ELSE Applies_cached(rule, c, rule_name, state)

\* the hit branch of Rule::apply: the successor the cache names, read from
\* possible_states
Apply_hit(c, ps, rule_name, base_state_hash) ==
    LET found == PossibleStates_state(ps, Cache_action(c, rule_name, base_state_hash).val)
    IN  IF IsSome(found)
        THEN {Ok([state |-> Unwrap(found), update |-> None])}
        ELSE {Err([kind |-> "StateNotFound",
                   state_hash |-> Cache_action(c, rule_name, base_state_hash).val])}

\* the miss branch with the hash taken of the base state, not of the new state
Apply_miss_hashes_base(rule, rule_name, base_state_hash, base_state) ==
    {IF r.ok
     THEN Ok([state |-> r.val,
              update |-> Some(ActionCacheUpdate_new(rule_name, base_state_hash,
                                                    StateHash_from_state(base_state)))])
     ELSE r : r \in NewStates(rule.action, base_state)}

\* the miss branch of Rule::apply: the action applied, the new state hashed
Apply_miss(rule, rule_name, base_state_hash, base_state) ==
    {IF r.ok
     THEN Ok([state |-> r.val,
              update |-> Some(ActionCacheUpdate_new(rule_name, base_state_hash,
                                                    StateHash_from_state(r.val)))])
     ELSE r : r \in NewStates(rule.action, base_state)}

\* apply that applies the action whether or not the cache holds the successor
Rule_apply_recomputes(rule, c, ps, rule_name, base_state_hash, base_state) ==
    Apply_miss(rule, rule_name, base_state_hash, base_state)

\* Rule::apply: every result it can return
Rule_apply(rule, c, ps, rule_name, base_state_hash, base_state) ==
    IF Cache_contains_action(c, rule_name, base_state_hash).val
    THEN Apply_hit(c, ps, rule_name, base_state_hash)
    ELSE Apply_miss(rule, rule_name, base_state_hash, base_state)

(***************************************************************************)
(* The calls of Rule::applies and Rule::apply with what they borrow        *)
(***************************************************************************)
\* what a call leaves behind: the cache and the pool it borrowed and what it
\* returned
Borrowed(c, ps, ret) == [cache |-> c, possible_states |-> ps, ret |-> ret]

\* rule.applies(&cache, ..): the cache is borrowed shared and only read
Rule_applies_call(rule, c, ps, rule_name, state) ==
    {Borrowed(c, ps, Rule_applies(rule, c, rule_name, state).ret)}

\* apply that writes the successor it computed into the cache and the pool
Rule_apply_call_writing(rule, c, ps, rule_name, base_state_hash, base_state) ==
    {Borrowed(IF ret.ok /\ IsSome(ret.val.update)
              THEN Cache_apply_action_update(c, Unwrap(ret.val.update)).self
              ELSE c,
              IF ret.ok /\ IsSome(ret.val.update)
              THEN PossibleStates_append_state(ps, StateHash_from_state(ret.val.state),
                                               ret.val.state).self
              ELSE ps,
              ret) :
        ret \in Rule_apply(rule, c, ps, rule_name, base_state_hash, base_state)}

\* rule.apply(&cache, &possible_states, ..): both are borrowed shared and
\* only read
Rule_apply_call(rule, c, ps, rule_name, base_state_hash, base_state) ==
    {Borrowed(c, ps, ret) :
        ret \in Rule_apply(rule, c, ps, rule_name, base_state_hash, base_state)}

(***************************************************************************)
(* The advance-step driver (spec.md 4.5)                                   *)
(***************************************************************************)
\* the float nearest to the real number n / d, for n >= 0 and d > 0
RoundRatio(n, d) ==
    LET x == n \div d
        q == IF x < 2 ^ MantissaBits THEN 1 ELSE 2 ^ (BitLength(x) - MantissaBits)
        lower == (x \div q) * q
    IN  IF 2 * (n - lower * d) < q * d THEN lower
        ELSE IF 2 * (n - lower * d) > q * d THEN lower + q
        ELSE IF (x \div q) % 2 = 0 THEN lower
        ELSE lower + q

\* mass * weight, both in units of 1/One
Probability_mul(a, b) == RoundRatio(a * b, One)

\* the tolerance of the verification of the total mass
Epsilon == 1

\* one entry of `applicable`
Applicable(rule_name, weight, new_hash, new_state) ==
    [rule_name |-> rule_name, weight |-> weight, new_hash |-> new_hash,
     new_state |-> new_state]

\* step 2b: the rules in the order `ro` evaluated on one base state against
\* the cache and the pool as they were when the step began; acc holds the
\* applicable rules and the updates recorded so far
RECURSIVE RulesLoop(_, _, _, _, _, _, _)
RulesLoop(c, ps, rules, ro, base_hash, base_state, acc) ==
    IF ro = <<>> THEN {Ok(acc)}
    ELSE LET rule_name == ro[1]
             rule == rules[rule_name]
             applies == Rule_applies(rule, c, rule_name, base_state).ret
         IN  IF ~applies.ok THEN {Err(applies.err)}
             ELSE LET recorded ==
                          IF IsSome(applies.val.update)
                          THEN Append(acc.updates, [kind |-> "condition",
                                                    update |-> Unwrap(applies.val.update)])
                          ELSE acc.updates
                  IN  IF ~applies.val.applies
                      THEN RulesLoop(c, ps, rules, Tail(ro), base_hash, base_state,
                                     [acc EXCEPT !.updates = recorded])
                      ELSE UNION {
                             IF ~r.ok THEN {Err(r.err)}
                             ELSE RulesLoop(c, ps, rules, Tail(ro), base_hash, base_state,
                                    [applicable |->
                                        Append(acc.applicable,
                                               Applicable(rule_name, rule.weight,
                                                          StateHash_from_state(r.val.state),
                                                          r.val.state)),
                                     updates |->
                                        IF IsSome(r.val.update)
                                        THEN Append(recorded, [kind |-> "action",
                                                               update |-> Unwrap(r.val.update)])
                                        ELSE recorded]) :
                             r \in Rule_apply(rule, c, ps, rule_name, base_hash, base_state)}

\* step 2c: W, the sum of the weights of the applicable rules
RECURSIVE WeightSum(_)
WeightSum(applicable) ==
    IF applicable = <<>> THEN 0
    ELSE Probability_add(WeightSum(SubSeq(applicable, 1, Len(applicable) - 1)),
                         applicable[Len(applicable)].weight)

\* the configuration option residual_mass_convention
Conventions == {"stay-put", "renormalize"}

\* step 2d: p_rule, the weight itself under stay-put and weight / max(1, W)
\* under renormalize
RuleProbability(convention, weight, W) ==
    IF convention = "renormalize" /\ W > One THEN RoundRatio(weight * One, W) ELSE weight

\* the deposits with the residual left out
Deposits_no_residual(convention, base_hash, mass, applicable) ==
    IF applicable = <<>> THEN <<<<base_hash, mass>>>>
    ELSE [i \in 1..Len(applicable) |->
             <<applicable[i].new_hash,
               Probability_mul(mass, RuleProbability(convention, applicable[i].weight,
                                                     WeightSum(applicable)))>>]

\* steps 2c and 2e: the deposits of one base state, as <<hash, mass>>: all of
\* the mass at the base hash when no rule is applicable, else mass * p_rule at
\* each successor and the residual mass * max(0, 1 - W) at the base hash
Deposits(convention, base_hash, mass, applicable) ==
    IF applicable = <<>> THEN <<<<base_hash, mass>>>>
    ELSE [i \in 1..Len(applicable) |->
             <<applicable[i].new_hash,
               Probability_mul(mass, RuleProbability(convention, applicable[i].weight,
                                                     WeightSum(applicable)))>>]
         \o <<<<base_hash,
                Probability_mul(mass,
                                IF WeightSum(applicable) > One THEN 0
                                ELSE RoundToFloat(One - WeightSum(applicable)))>>>>

\* step 2: the loop over the entries of R in the order `bo`; batch holds R',
\* the updates, the new states, the applicable rules and the deposits so far
RECURSIVE BaseLoop(_, _, _, _, _, _)
BaseLoop(c, ps, config, ro, bo, batch) ==
    IF bo = <<>> THEN {Ok(batch)}
    ELSE LET base_hash == bo[1][1]
             mass == bo[1][2]
             base_state == PossibleStates_state(ps, base_hash)
         IN  IF ~IsSome(base_state)
             THEN {Err([kind |-> "StateNotFound", state_hash |-> base_hash])}
             ELSE UNION {
                    IF ~r.ok THEN {r}
                    ELSE LET deposits == Deposits(config.residual_mass_convention, base_hash, mass,
                                                 r.val.applicable)
                             deposited == ReachableStates_append_states(batch.new, deposits)
                         IN  IF ~deposited.ret.ok THEN {Err(deposited.ret.err)}
                             ELSE BaseLoop(c, ps, config, ro, Tail(bo),
                                    [new |-> deposited.self,
                                     updates |-> batch.updates \o r.val.updates,
                                     inserts |-> batch.inserts \o
                                        [i \in 1..Len(r.val.applicable) |->
                                            <<r.val.applicable[i].new_hash,
                                              r.val.applicable[i].new_state>>],
                                     fired |-> batch.fired \cup
                                        {[base_hash |-> base_hash, mass |-> mass,
                                          applicable |-> r.val.applicable]},
                                     deposits |-> batch.deposits \o deposits]) :
                    r \in RulesLoop(c, ps, config.rules, ro, base_hash, Unwrap(base_state),
                                    [applicable |-> <<>>, updates |-> <<>>])}

\* step 1: the empty R' and the empty batch
EmptyBatch ==
    [new |-> ReachableStates_new, updates |-> <<>>, inserts |-> <<>>, fired |-> {},
     deposits |-> <<>>]

\* step 3, the cache: the recorded updates applied in the order recorded
RECURSIVE ApplyUpdates(_, _)
ApplyUpdates(c, updates) ==
    IF updates = <<>> THEN [self |-> c, ret |-> Ok(<<>>)]
    ELSE LET r == IF updates[1].kind = "condition"
                  THEN Cache_apply_condition_update(c, updates[1].update)
                  ELSE Cache_apply_action_update(c, updates[1].update)
         IN  IF r.ret.ok THEN ApplyUpdates(r.self, Tail(updates)) ELSE r

\* step 3 with no state inserted into the pool
InsertNewStates_skipped(ps, inserts) == ps

\* step 3, the pool: each new state inserted; the AlreadyExists error of a
\* state the pool holds is the idempotent error the caller ignores
RECURSIVE InsertNewStates(_, _)
InsertNewStates(ps, inserts) ==
    IF inserts = <<>> THEN ps
    ELSE InsertNewStates(PossibleStates_append_state(ps, inserts[1][1], inserts[1][2]).self,
                         Tail(inserts))

\* step 4 without the test: every sum is accepted
VerifyMass_skipped(sum) == TRUE

\* step 4: the total mass of R' is within Epsilon of 1
VerifyMass(sum) == sum - One <= Epsilon /\ One - sum <= Epsilon

\* what a step leaves behind: the three collections, what it returns, the
\* batch it built and the total mass its verification computed
Outcome(c, ps, rs, ret, batch, sum) ==
    [cache |-> c, possible_states |-> ps, reachable_states |-> rs, ret |-> ret,
     batch |-> batch, sum |-> sum]

\* steps 3 and 4, or the abort of the step when the loop failed
Finish(c, ps, rs, looped) ==
    IF ~looped.ok
    THEN {Outcome(c, ps, rs, Err([phase |-> "loop", error |-> looped.err]), EmptyBatch,
                  None)}
    ELSE LET batch == looped.val
             updated == ApplyUpdates(c, batch.updates)
             inserted == InsertNewStates(ps, batch.inserts)
         IN  IF ~updated.ret.ok
             THEN {Outcome(updated.self, ps, rs,
                           Err([phase |-> "commit", error |-> updated.ret.err]), batch,
                           None)}
             ELSE {IF VerifyMass(sum)
                   THEN Outcome(updated.self, inserted, batch.new, Ok(<<>>), batch,
                                Some(sum))
                   ELSE Outcome(updated.self, inserted, rs,
                                Err([phase |-> "verify",
                                     error |-> [kind |-> "OutOfRange", value |-> sum]]),
                                batch, Some(sum)) :
                   sum \in ReachableStates_probability_sum(batch.new)}

\* the advance-step: every outcome it can have, over the orders in which R
\* and the rules are iterated
AdvanceStep(c, ps, rs, config) ==
    UNION {UNION {Finish(c, ps, rs, looped) :
                     looped \in BaseLoop(c, ps, config, ro, bo, EmptyBatch)} :
              <<bo, ro>> \in ReachableStates_iter(rs) \X Orderings(DOMAIN config.rules)}

(***************************************************************************)
(* Values the variables hold while a specification does not use them       *)
(***************************************************************************)
NoRes == [op |-> "none"]
NoHist == [pre |-> Cache_new, miss |-> None]

(***************************************************************************)
(* SpecState: hashing and comparing two State values                       *)
(***************************************************************************)
InitState ==
    /\ reachable_states = ReachableStates_new
    /\ cur \in State
    /\ other \in State
    /\ cache = Cache_new
    /\ possible_states = EmptyMap
    /\ res = NoRes
    /\ hist = NoHist

\* StateHash::from_state(&cur), StateHash::from_state(&other)
FromState ==
    /\ res' = [op |-> "from_state", a |-> StateHash_from_state(cur),
               b |-> StateHash_from_state(other)]
    /\ UNCHANGED <<cache, possible_states, reachable_states, cur, other, hist>>

\* cur == other
Eq ==
    /\ res' = [op |-> "eq", ret |-> State_eq(cur, other)]
    /\ UNCHANGED <<cache, possible_states, reachable_states, cur, other, hist>>

\* other = cur.clone(): the clone keeps the table's layout
Clone ==
    /\ other' = cur
    /\ res' = [op |-> "clone"]
    /\ UNCHANGED <<cache, possible_states, reachable_states, cur, hist>>

NextState == FromState \/ Eq \/ Clone

SpecState == InitState /\ [][NextState]_vars

\* C3: two states that are equal as unordered nested mappings always produce
\* the same StateHash, whatever the iteration order of their entities and of
\* each entity's parameters.
C3_HashIgnoresIterationOrder ==
    (res.op = "from_state" /\ AsMap(cur) = AsMap(other)) => res.a = res.b

\* C4: two State values compare equal if and only if they hold the same set of
\* entities with the same parameter values.
C4_EqIffSameEntities ==
    res.op = "eq" => (res.ret <=> AsMap(cur) = AsMap(other))

(***************************************************************************)
(* SpecCache: the writes of the Cache                                      *)
(***************************************************************************)
\* the cache of SpecCache holds at most MaxEntries entries
MaxEntries == 2
\* the cache merged in holds at most MaxOtherEntries entries
MaxOtherEntries == 2

\* the states whose hashes key the cache of SpecCache
KeyStates == {State_new, <<<<"A", <<<<"p", 0>>>>>>>>}
CacheHashes == {StateHash_from_state(s) : s \in KeyStates}

\* the keys of the entries a cache holds
Entries(c) ==
    UNION {{<<n, "condition", h>> : h \in DOMAIN c[n].condition}
             \cup {<<n, "action", h>> : h \in DOMAIN c[n].actions} : n \in DOMAIN c}
EntryCount(c) == Cardinality(Entries(c))

\* the caches a rule set over RuleNames and CacheHashes can build
PartialMaps(K, V) == UNION {[D -> V] : D \in SUBSET K}
RuleCaches == [condition : PartialMaps(CacheHashes, BOOLEAN),
               actions : PartialMaps(CacheHashes, CacheHashes)]
\* the caches merged in: what the evaluation of the rules at one base state
\* yields, at most MaxOtherEntries entries
OtherCaches ==
    {c \in PartialMaps(RuleNames, RuleCaches \ {RuleCache_new}) :
        /\ EntryCount(c) <= MaxOtherEntries
        /\ Cardinality({e[3] : e \in Entries(c)}) <= 1}
\* the entries of each of them in every order a merge can meet them
OtherWrites == UNION {MergeOrders(oc) : oc \in OtherCaches}

InitCache ==
    /\ reachable_states = ReachableStates_new
    /\ cache = Cache_new
    /\ possible_states = EmptyMap
    /\ cur = State_new
    /\ other = State_new
    /\ res = NoRes
    /\ hist = NoHist

\* the caller is sequential: it has taken the result of one call (Return) before
\* it makes the next
Called(op, rule_name, base_state_hash, value, r) ==
    /\ res = NoRes
    /\ EntryCount(r.self) <= MaxEntries
    /\ cache' = r.self
    /\ res' = [op |-> op, rule_name |-> rule_name, base_state_hash |-> base_state_hash,
               value |-> value, ret |-> r.ret]
    /\ hist' = [hist EXCEPT !.pre = cache]
    /\ UNCHANGED <<possible_states, reachable_states, cur, other>>

AddCondition ==
    \E rule_name \in RuleNames, h \in CacheHashes, applies \in BOOLEAN :
        Called("add_condition", rule_name, h, applies,
               Cache_add_condition(cache, rule_name, h, applies))

AddAction ==
    \E rule_name \in RuleNames, h \in CacheHashes, n \in CacheHashes :
        Called("add_action", rule_name, h, n, Cache_add_action(cache, rule_name, h, n))

ApplyConditionUpdate ==
    \E rule_name \in RuleNames, h \in CacheHashes, applies \in BOOLEAN :
        Called("apply_condition_update", rule_name, h, applies,
               Cache_apply_condition_update(cache,
                   ConditionCacheUpdate_new(rule_name, h, applies)))

ApplyActionUpdate ==
    \E rule_name \in RuleNames, h \in CacheHashes, n \in CacheHashes :
        Called("apply_action_update", rule_name, h, n,
               Cache_apply_action_update(cache, ActionCacheUpdate_new(rule_name, h, n)))

Merge ==
    \E writes \in OtherWrites :
        LET r == Cache_merge(cache, writes)
        IN  /\ res = NoRes
            /\ EntryCount(r.self) <= MaxEntries
            /\ cache' = r.self
            /\ res' = [op |-> "merge", entries |-> Range(writes), ret |-> r.ret]
            /\ hist' = [hist EXCEPT !.pre = cache]
            /\ UNCHANGED <<possible_states, reachable_states, cur, other>>

\* a call of a lookup that takes &self
Looked(op, rule_name, base_state_hash, ret) ==
    /\ res = NoRes
    /\ res' = [op |-> op, rule_name |-> rule_name, base_state_hash |-> base_state_hash,
               ret |-> ret]
    /\ hist' = [hist EXCEPT !.pre = cache]
    /\ UNCHANGED <<cache, possible_states, reachable_states, cur, other>>

ContainsCondition ==
    \E rule_name \in RuleNames, h \in CacheHashes :
        Looked("contains_condition", rule_name, h, Cache_contains_condition(cache, rule_name, h))

ContainsAction ==
    \E rule_name \in RuleNames, h \in CacheHashes :
        Looked("contains_action", rule_name, h, Cache_contains_action(cache, rule_name, h))

LookupCondition ==
    \E rule_name \in RuleNames, h \in CacheHashes :
        Looked("condition", rule_name, h, Cache_condition(cache, rule_name, h))

LookupAction ==
    \E rule_name \in RuleNames, h \in CacheHashes :
        Looked("action", rule_name, h, Cache_action(cache, rule_name, h))

\* the caller takes the result of the last call
Return ==
    /\ res # NoRes
    /\ res' = NoRes
    /\ hist' = NoHist
    /\ UNCHANGED <<cache, possible_states, reachable_states, cur, other>>

NextCache ==
    \/ AddCondition \/ AddAction \/ ApplyConditionUpdate \/ ApplyActionUpdate \/ Merge
    \/ ContainsCondition \/ ContainsAction \/ LookupCondition \/ LookupAction
    \/ Return

SpecCache == InitCache /\ [][NextCache]_vars

HasCondition(c, rule_name, h) == rule_name \in DOMAIN c /\ h \in DOMAIN c[rule_name].condition
HasAction(c, rule_name, h) == rule_name \in DOMAIN c /\ h \in DOMAIN c[rule_name].actions

\* C1: whatever Cache operation ran last (add_condition, add_action,
\* apply_condition_update, apply_action_update, merge) and whether it succeeded
\* or failed, every condition entry and every action entry the cache held
\* before the call is still there with the same value.
C1_EntriesWriteOnce ==
    \A rule_name \in RuleNames, h \in CacheHashes :
        /\ HasCondition(hist.pre, rule_name, h) =>
              /\ HasCondition(cache, rule_name, h)
              /\ cache[rule_name].condition[h] = hist.pre[rule_name].condition[h]
        /\ HasAction(hist.pre, rule_name, h) =>
              /\ HasAction(cache, rule_name, h)
              /\ cache[rule_name].actions[h] = hist.pre[rule_name].actions[h]

\* a write of a differing value was refused, and a merge failed half way
C1_Witness ==
    \/ /\ res.op = "merge"
       /\ ~res.ret.ok
       /\ cache # hist.pre
       /\ hist.pre # Cache_new
    \/ /\ res.op = "add_condition"
       /\ ~res.ret.ok

\* C2: when the cache already holds an entry for (rule, base hash),
\* add_condition, add_action and the apply_*_update wrappers return Ok exactly
\* when the written value equals the stored one and an already-exists error
\* otherwise; either way the cache is left as it was.
C2_WriteToExistingEntry ==
    /\ (/\ res.op \in {"add_condition", "apply_condition_update"}
        /\ HasCondition(hist.pre, res.rule_name, res.base_state_hash)) =>
           /\ res.ret.ok <=> hist.pre[res.rule_name].condition[res.base_state_hash] = res.value
           /\ ~res.ret.ok => res.ret.err.kind = "ConditionAlreadyExists"
           /\ cache = hist.pre
    /\ (/\ res.op \in {"add_action", "apply_action_update"}
        /\ HasAction(hist.pre, res.rule_name, res.base_state_hash)) =>
           /\ res.ret.ok <=> hist.pre[res.rule_name].actions[res.base_state_hash] = res.value
           /\ ~res.ret.ok => res.ret.err.kind = "ActionAlreadyExists"
           /\ cache = hist.pre

\* an action entry was written again with another successor and refused
C2_Witness ==
    /\ res.op \in {"add_action", "apply_action_update"}
    /\ HasAction(hist.pre, res.rule_name, res.base_state_hash)
    /\ ~res.ret.ok


\* the entries of a cache as write records
EntryRecords(c) ==
    UNION {{[kind |-> "condition", rule_name |-> n, base_state_hash |-> h,
             value |-> c[n].condition[h]] : h \in DOMAIN c[n].condition}
             \cup {[kind |-> "action", rule_name |-> n, base_state_hash |-> h,
                    value |-> c[n].actions[h]] : h \in DOMAIN c[n].actions} : n \in DOMAIN c}

\* an entry of the merged cache whose key the receiver held with another value
MergeConflicts ==
    {w \in res.entries :
        \E e \in EntryRecords(hist.pre) :
            /\ e.kind = w.kind
            /\ e.rule_name = w.rule_name
            /\ e.base_state_hash = w.base_state_hash
            /\ e.value # w.value}

\* C12: Cache::merge returns Ok exactly when every key the two caches share
\* holds the same value in both; then the receiver holds the union of the
\* entries of both, and otherwise the result is an already-exists error.
C12_MergeOkIffNoConflict ==
    res.op = "merge" =>
        /\ res.ret.ok <=> MergeConflicts = {}
        /\ res.ret.ok => EntryRecords(cache) = EntryRecords(hist.pre) \cup res.entries
        /\ ~res.ret.ok =>
              res.ret.err.kind \in {"ConditionAlreadyExists", "ActionAlreadyExists"}

\* a merge succeeded over a shared key and brought a new entry
C12_Witness ==
    /\ res.op = "merge"
    /\ res.ret.ok
    /\ res.entries \cap EntryRecords(hist.pre) # {}
    /\ res.entries \ EntryRecords(hist.pre) # {}


\* C17: contains_condition and contains_action never return an error: false
\* for a rule name without sub-cache, otherwise true exactly when the rule
\* holds an entry for the base hash; the cache is left as it was.
C17_ContainsNeverFails ==
    /\ res.op = "contains_condition" =>
          /\ res.ret = Ok(HasCondition(cache, res.rule_name, res.base_state_hash))
          /\ cache = hist.pre
    /\ res.op = "contains_action" =>
          /\ res.ret = Ok(HasAction(cache, res.rule_name, res.base_state_hash))
          /\ cache = hist.pre

\* a rule without sub-cache was asked for while another rule holds entries
C17_Witness ==
    /\ res.op = "contains_action"
    /\ res.rule_name \notin DOMAIN cache
    /\ cache # Cache_new
    /\ res.ret = Ok(FALSE)

\* C18: Cache::condition and Cache::action return the stored value exactly
\* when contains_condition / contains_action is true for the key, and
\* otherwise a not-found error; no sub-cache and no entry is created.
C18_LookupOrNotFound ==
    /\ res.op = "condition" =>
          /\ IF Cache_contains_condition(cache, res.rule_name, res.base_state_hash).val
             THEN res.ret = Ok(cache[res.rule_name].condition[res.base_state_hash])
             ELSE /\ ~res.ret.ok
                  /\ res.ret.err.kind \in {"RuleNotFound", "ConditionNotFound"}
          /\ cache = hist.pre
    /\ res.op = "action" =>
          /\ IF Cache_contains_action(cache, res.rule_name, res.base_state_hash).val
             THEN res.ret = Ok(cache[res.rule_name].actions[res.base_state_hash])
             ELSE /\ ~res.ret.ok
                  /\ res.ret.err.kind \in {"RuleNotFound", "ActionNotFound"}
          /\ cache = hist.pre

\* the rule has a sub-cache, with a condition entry for the hash and no action
C18_Witness ==
    /\ res.op = "action"
    /\ HasCondition(cache, res.rule_name, res.base_state_hash)
    /\ ~res.ret.ok
    /\ res.ret.err.kind = "ActionNotFound"

AddedToNewRule ==
    /\ res.op \in {"add_condition", "add_action"}
    /\ res.rule_name \notin DOMAIN hist.pre

\* C19: add_condition and add_action for a rule name without sub-cache
\* succeed: the sub-cache is created and holds the entry, the matching lookup
\* returns the written value, and the other rules' entries are as before.
C19_AddCreatesRule ==
    AddedToNewRule =>
        /\ res.ret.ok
        /\ DOMAIN cache = DOMAIN hist.pre \cup {res.rule_name}
        /\ \A n \in DOMAIN hist.pre : cache[n] = hist.pre[n]
        /\ res.op = "add_condition" =>
              /\ Cache_condition(cache, res.rule_name, res.base_state_hash) = Ok(res.value)
              /\ cache[res.rule_name].actions = EmptyMap
        /\ res.op = "add_action" =>
              /\ Cache_action(cache, res.rule_name, res.base_state_hash) = Ok(res.value)
              /\ cache[res.rule_name].condition = EmptyMap

\* a condition was added for a new rule next to a rule that holds entries
C19_Witness ==
    /\ AddedToNewRule
    /\ res.op = "add_condition"
    /\ hist.pre # Cache_new
    /\ res.ret.ok

(***************************************************************************)
(* SpecApplies: Rule::applies on one state, the returned updates applied   *)
(***************************************************************************)
\* the rules Rule::applies is called on: every condition, every weight
AppliesRules == {Rule_new(c, w, [tag |-> "None"]) : c \in Condition, w \in Weights}

\* the states Rule::applies is called on: those of at most one entity
AppliesStates == {s \in State : Len(s) <= 1}

InitApplies ==
    /\ reachable_states = ReachableStates_new
    /\ cur \in AppliesStates
    /\ cache = Cache_new
    /\ possible_states = PossibleStates_new
    /\ other = State_new
    /\ res = NoRes
    /\ hist = NoHist

\* rule.applies(&cache, rule_name, cur.clone())
Applies ==
    \E rule \in AppliesRules, rule_name \in RuleNames :
        /\ res' = [op |-> "applies", rule |-> rule, rule_name |-> rule_name, state |-> cur,
                   hit |-> HasCondition(cache, rule_name, StateHash_from_state(cur)),
                   out |-> Rule_applies(rule, cache, rule_name, cur)]
        /\ UNCHANGED <<cache, possible_states, reachable_states, cur, other, hist>>

\* cache.apply_condition_update(u), u the update the last call of
\* Rule::applies returned; hist.miss keeps that call
ApplyReturnedConditionUpdate ==
    /\ res.op = "applies"
    /\ IsSome(res.out.ret.val.update)
    /\ LET r == Cache_apply_condition_update(cache, Unwrap(res.out.ret.val.update))
       IN  /\ cache' = r.self
           /\ res' = [op |-> "apply_condition_update",
                      update |-> Unwrap(res.out.ret.val.update), ret |-> r.ret]
    /\ hist' = [hist EXCEPT !.miss =
                   Some([rule_name |-> res.rule_name, state |-> res.state,
                         applies |-> res.out.ret.val.applies])]
    /\ UNCHANGED <<possible_states, reachable_states, cur, other>>

NextApplies == Applies \/ ApplyReturnedConditionUpdate

SpecApplies == InitApplies /\ [][NextApplies]_vars

\* the last call of Rule::applies repeats, with a rule of non-zero weight, the
\* rule name and the state of the last miss, whose update the cache has taken
RepeatsAppliedMiss ==
    /\ res.op = "applies"
    /\ res.rule.weight # 0
    /\ IsSome(hist.miss)
    /\ res.rule_name = Unwrap(hist.miss).rule_name
    /\ res.state = Unwrap(hist.miss).state

\* C5: for a rule of non-zero weight, when Rule::applies missed the cache and
\* returned (v, Some(u)) and u was applied to the cache, the next
\* Rule::applies call for that rule name and state returns (v, None).
C5_WarmCacheIdempotent ==
    RepeatsAppliedMiss =>
        res.out.ret = Ok([applies |-> Unwrap(hist.miss).applies, update |-> None])

\* a condition function was evaluated, its update applied, and the call repeated
C5_Witness ==
    /\ RepeatsAppliedMiss
    /\ res.rule.condition.tag = "Function"
    /\ res.out.ret.val.applies

\* C6: a rule of weight 0 returns (false, None) for every state and every
\* cache content, and consults neither the cache nor the condition function.
C6_ZeroWeightNeverFires ==
    (res.op = "applies" /\ res.rule.weight = 0) =>
        /\ res.out.ret = Ok([applies |-> FALSE, update |-> None])
        /\ res.out.calls = {}

\* a weight-0 Always rule is asked while the cache holds condition = true for it
C6_Witness ==
    /\ res.op = "applies"
    /\ res.rule.weight = 0
    /\ res.rule.condition.tag = "Always"
    /\ HasCondition(cache, res.rule_name, StateHash_from_state(res.state))
    /\ cache[res.rule_name].condition[StateHash_from_state(res.state)]

\* C7: on a condition-cache miss with non-zero weight, Rule::applies returns
\* false for Never, true for Always and the function's result for Function,
\* with exactly one ConditionCacheUpdate carrying the given rule name, the
\* StateHash of the given state and that same value.
C7_MissEvaluatesCondition ==
    (res.op = "applies" /\ res.rule.weight # 0 /\ ~res.hit) =>
        /\ res.out.ret.ok
        /\ res.rule.condition.tag = "Never" => ~res.out.ret.val.applies
        /\ res.rule.condition.tag = "Always" => res.out.ret.val.applies
        /\ res.rule.condition.tag = "Function" =>
              res.out.ret.val.applies = CallCondition(res.rule.condition.f, res.state)
        /\ res.out.ret.val.update =
              Some([rule_name |-> res.rule_name,
                    base_state_hash |-> StateHash_from_state(res.state),
                    applies |-> res.out.ret.val.applies])

\* a condition function returned false on a miss
C7_Witness ==
    /\ res.op = "applies"
    /\ res.rule.weight # 0
    /\ ~res.hit
    /\ res.rule.condition.tag = "Function"
    /\ ~res.out.ret.val.applies
    /\ IsSome(res.out.ret.val.update)

(***************************************************************************)
(* SpecApply: Rule::apply at one base state, its results committed         *)
(***************************************************************************)
\* at most MaxCommits returned updates are applied to the cache
MaxCommits == 1

\* the base states of SpecApply: every shape of State, the values all 0
ApplyStates ==
    {s \in State : \A i \in DOMAIN s : \A j \in DOMAIN s[i][2] : s[i][2][j][2] = 0}

\* the actions of the rules applied: those of Action that write MaxValue
ApplyActions ==
    {a \in Action : a.tag = "SetParameter" => a.parameter_value = MaxValue}

InitApply ==
    /\ reachable_states = ReachableStates_new
    /\ cur \in ApplyStates
    /\ cache = Cache_new
    /\ possible_states = PossibleStates_new
    /\ other = State_new
    /\ res = NoRes
    /\ hist = NoHist

\* rule.apply(&cache, &possible_states, rule_name, base_state_hash, base_state)
\* with the hash of cur and either cur or a state of the pool as base state;
\* the caller is sequential: the result of one call is committed or dropped
\* before the next call
Apply ==
    /\ res.op # "apply"
    /\ \E action \in ApplyActions, rule_name \in RuleNames,
          base_state \in {cur} \cup Range(possible_states) :
        LET rule == Rule_new([tag |-> "Always"], 10, action)
            base_state_hash == StateHash_from_state(cur)
        IN  \E r \in Rule_apply(rule, cache, possible_states, rule_name,
                                base_state_hash, base_state) :
                /\ res' = [op |-> "apply", rule |-> rule, rule_name |-> rule_name,
                           base_state_hash |-> base_state_hash, base_state |-> base_state,
                           hit |-> HasAction(cache, rule_name, base_state_hash),
                           ret |-> r]
                /\ UNCHANGED <<cache, possible_states, reachable_states, cur, other, hist>>

ReturnedUpdate ==
    /\ res.op = "apply"
    /\ res.ret.ok
    /\ IsSome(res.ret.val.update)
    /\ EntryCount(cache) < MaxCommits

\* the update and the new state of the last apply are committed: the cache
\* takes the update, the pool the new state under its hash (a state already
\* in the pool is left)
Commit ==
    /\ ReturnedUpdate
    /\ cache' = Cache_apply_action_update(cache, Unwrap(res.ret.val.update)).self
    /\ possible_states' =
          PossibleStates_append_state(possible_states,
              StateHash_from_state(res.ret.val.state), res.ret.val.state).self
    /\ res' = NoRes
    /\ UNCHANGED <<reachable_states, cur, other, hist>>

\* the cache takes the update and the new state is not inserted
CommitUpdateOnly ==
    /\ ReturnedUpdate
    /\ cache' = Cache_apply_action_update(cache, Unwrap(res.ret.val.update)).self
    /\ res' = NoRes
    /\ UNCHANGED <<possible_states, reachable_states, cur, other, hist>>

\* the result of the last apply is dropped
Drop ==
    /\ res.op = "apply"
    /\ res' = NoRes
    /\ UNCHANGED <<cache, possible_states, reachable_states, cur, other, hist>>

NextApply == Apply \/ Commit \/ CommitUpdateOnly \/ Drop

SpecApply == InitApply /\ [][NextApply]_vars

AppliedOnHit == res.op = "apply" /\ res.hit
AppliedOnMiss == res.op = "apply" /\ ~res.hit
CachedSuccessor == cache[res.rule_name].actions[res.base_state_hash]

\* C8: when the cache holds action(rule, base_hash) = s, Rule::apply returns
\* (the state stored under s in PossibleStates, None) whatever the rule's
\* action and the base state passed in, and a not-found error when s is not
\* in PossibleStates.
C8_HitReturnsPooledState ==
    AppliedOnHit =>
        IF CachedSuccessor \in DOMAIN possible_states
        THEN res.ret = Ok([state |-> possible_states[CachedSuccessor], update |-> None])
        ELSE ~res.ret.ok /\ res.ret.err.kind = "StateNotFound"

\* a hit returned a pooled state that the action of the rule called does not
\* yield from the base state passed in
C8_Witness ==
    /\ AppliedOnHit
    /\ res.ret.ok
    /\ Ok(res.ret.val.state) \notin NewStates(res.rule.action, res.base_state)

\* C9: on an action-cache miss a returned (new_state, Some(update)) has
\* update.rule the given rule name, update.base_hash the given
\* base_state_hash and update.new_hash = StateHash(new_state); None and
\* InsertEntity always return one, and for None new_state is the base state,
\* the update naming the base state's own hash.
C9_MissReturnsUpdate ==
    AppliedOnMiss =>
        /\ res.ret.ok =>
              res.ret.val.update =
                  Some([rule_name |-> res.rule_name,
                        base_state_hash |-> res.base_state_hash,
                        new_state_hash |-> StateHash_from_state(res.ret.val.state)])
        /\ res.rule.action.tag \in {"None", "InsertEntity"} => res.ret.ok
        /\ res.rule.action.tag = "None" =>
              /\ res.ret.val.state = res.base_state
              /\ Unwrap(res.ret.val.update).new_state_hash =
                    StateHash_from_state(res.base_state)

\* a miss changed a state of the pool, passed in under the hash of another state
C9_Witness ==
    /\ AppliedOnMiss
    /\ res.ret.ok
    /\ res.ret.val.state # res.base_state
    /\ res.base_state_hash # StateHash_from_state(res.base_state)
    /\ StateHash_from_state(res.ret.val.state) # StateHash_from_state(res.base_state)

SetParameterOnMiss == AppliedOnMiss /\ res.rule.action.tag = "SetParameter"
Targeted ==
    /\ res.rule.action.entity_name \in Keys(res.base_state)
    /\ res.rule.action.parameter
          \in DOMAIN AsMap(res.base_state)[res.rule.action.entity_name]

\* C10: on an action-cache miss SetParameter(e, p, v) yields the base state
\* with parameter p of entity e holding v and nothing else changed; if e is
\* absent, or has no parameter p, Rule::apply returns an error, with neither
\* a state nor an update.
C10_SetParameter ==
    SetParameterOnMiss =>
        IF Targeted
        THEN /\ res.ret.ok
             /\ AsMap(res.ret.val.state) =
                   [AsMap(res.base_state) EXCEPT
                       ![res.rule.action.entity_name][res.rule.action.parameter] =
                           res.rule.action.parameter_value]
        ELSE /\ ~res.ret.ok
             /\ res.ret.err.kind = "NotFound"
             /\ DOMAIN res.ret = {"ok", "err"}

\* the entity is there, the parameter is not: the error
C10_Witness ==
    /\ SetParameterOnMiss
    /\ res.rule.action.entity_name \in Keys(res.base_state)
    /\ ~Targeted
    /\ ~res.ret.ok

InsertEntityOnMiss == AppliedOnMiss /\ res.rule.action.tag = "InsertEntity"

\* C11: on an action-cache miss InsertEntity(e, entity) never fails; the new
\* state maps e to the given entity alone, the former parameters of e gone,
\* and every other entity name as the base state does.
C11_InsertEntity ==
    InsertEntityOnMiss =>
        /\ res.ret.ok
        /\ AsMap(res.ret.val.state) =
              [x \in Keys(res.base_state) \cup {res.rule.action.entity_name} |->
                  IF x = res.rule.action.entity_name
                  THEN EntityAsMap(res.rule.action.entity)
                  ELSE AsMap(res.base_state)[x]]

\* an entity that had a parameter the inserted one lacks is replaced, next to
\* another entity
C11_Witness ==
    /\ InsertEntityOnMiss
    /\ res.ret.ok
    /\ res.rule.action.entity_name \in Keys(res.base_state)
    /\ Len(res.base_state) > 1
    /\ DOMAIN AsMap(res.base_state)[res.rule.action.entity_name]
          \ DOMAIN EntityAsMap(res.rule.action.entity) # {}

(***************************************************************************)
(* SpecWorkers: workers evaluate the rules at cur against one snapshot of  *)
(* the cache; the updates they return are applied in any order, any number *)
(* of times                                                                *)
(***************************************************************************)
\* the base states of the workers: at most one entity, the values all 0
WorkerStates == AppliesStates \cap ApplyStates

\* the rules the workers evaluate
WorkerRules ==
    {Rule_new(c, 10, a) :
        c \in {[tag |-> "Always"], [tag |-> "Function", f |-> "has_A"]},
        a \in {[tag |-> "None"],
               [tag |-> "SetParameter", entity_name |-> "A", parameter |-> "p",
                parameter_value |-> MaxValue],
               [tag |-> "SetFunction", f |-> "set_A_p"],
               [tag |-> "InsertEntity", entity_name |-> "B", entity |-> <<>>]}}

\* the new states the action of a rule can yield from a state
Built(rule, state) == {r.val : r \in {x \in NewStates(rule.action, state) : x.ok}}

\* hist.pre is the snapshot the workers read, hist.rules the rule set,
\* hist.built the new state each rule's action yields from cur: the workers
\* apply the action to clones of one stored state, which iterate alike, so
\* what the build yields is one state for all of them; hist.pending are the
\* updates returned so far, hist.applied those the cache has taken
InitWorkers ==
    /\ reachable_states = ReachableStates_new
    /\ cur \in WorkerStates
    /\ cache = Cache_new
    /\ possible_states = PossibleStates_new
    /\ other = State_new
    /\ res = NoRes
    /\ \E rules \in [RuleNames -> WorkerRules] :
        \E built \in [RuleNames -> UNION {Built(rules[n], cur) : n \in RuleNames} \cup {cur}] :
            /\ \A n \in RuleNames :
                  built[n] \in IF Built(rules[n], cur) = {} THEN {cur}
                               ELSE Built(rules[n], cur)
            /\ hist = [pre |-> Cache_new, rules |-> rules, built |-> built,
                       pending |-> {}, applied |-> {}]

\* one worker: rule.applies on the snapshot and, when the rule applies,
\* rule.apply; the updates returned join hist.pending
Work ==
    \E rule_name \in RuleNames :
        LET rule == hist.rules[rule_name]
            base_state_hash == StateHash_from_state(cur)
            out == Rule_applies(rule, hist.pre, rule_name, cur).ret.val
            conditions == IF IsSome(out.update)
                          THEN {[kind |-> "condition", update |-> Unwrap(out.update)]}
                          ELSE {}
        IN  /\ IF out.applies
               THEN \E r \in Rule_apply(rule, hist.pre, possible_states, rule_name,
                                        base_state_hash, cur) :
                        /\ (r.ok /\ IsSome(r.val.update)) => r.val.state = hist.built[rule_name]
                        /\ hist' = [hist EXCEPT !.pending =
                                      @ \cup conditions \cup
                                      IF r.ok /\ IsSome(r.val.update)
                                      THEN {[kind |-> "action",
                                             update |-> Unwrap(r.val.update)]}
                                      ELSE {}]
               ELSE hist' = [hist EXCEPT !.pending = @ \cup conditions]
            /\ res' = [op |-> "work", rule_name |-> rule_name]
            /\ UNCHANGED <<cache, possible_states, reachable_states, cur, other>>

\* the cache takes one of the pending updates, once more if it has it already
ApplyUpdate ==
    \E u \in hist.pending :
        LET r == IF u.kind = "condition"
                 THEN Cache_apply_condition_update(cache, u.update)
                 ELSE Cache_apply_action_update(cache, u.update)
        IN  /\ cache' = r.self
            /\ res' = [op |-> "apply_update", again |-> u \in hist.applied, ret |-> r.ret]
            /\ hist' = [hist EXCEPT !.applied = @ \cup {u}]
            /\ UNCHANGED <<possible_states, reachable_states, cur, other>>

\* the workers take a new snapshot of the cache
TakeSnapshot ==
    /\ hist.pre # cache
    /\ hist' = [hist EXCEPT !.pre = cache]
    /\ res' = [op |-> "snapshot"]
    /\ UNCHANGED <<cache, possible_states, reachable_states, cur, other>>

NextWorkers == Work \/ ApplyUpdate \/ TakeSnapshot

SpecWorkers == InitWorkers /\ [][NextWorkers]_vars

\* the entry an update writes
UpdateRecord(u) ==
    [kind |-> u.kind, rule_name |-> u.update.rule_name,
     base_state_hash |-> u.update.base_state_hash,
     value |-> IF u.kind = "condition" THEN u.update.applies ELSE u.update.new_state_hash]

\* C13: the updates that workers reading one snapshot, rule set and pool
\* return can be applied in any order and any number of times: each
\* application succeeds, and the cache holds the entries of the updates
\* applied so far and nothing else, whatever the order was.
C13_UpdatesCommute ==
    /\ res.op = "apply_update" => res.ret.ok
    /\ EntryRecords(cache) = {UpdateRecord(u) : u \in hist.applied}

\* both rules' updates are in the cache and one was applied a second time
C13_Witness ==
    /\ res.op = "apply_update"
    /\ res.again
    /\ Cardinality(hist.applied) >= 3
    /\ \E u \in hist.applied : u.kind = "action" /\ u.update.new_state_hash # u.update.base_state_hash

(***************************************************************************)
(* SpecGraph: Cache::graph on a cache and a pool                           *)
(***************************************************************************)
\* the caches graph is called on: any entries over RuleNames and CacheHashes
GraphCaches == PartialMaps(RuleNames, RuleCaches)

\* the pools graph is called with: any of the KeyStates under their hashes
GraphPools ==
    {[h \in {StateHash_from_state(s) : s \in K} |->
        CHOOSE s \in K : StateHash_from_state(s) = h] : K \in SUBSET KeyStates}

InitGraph ==
    /\ reachable_states = ReachableStates_new
    /\ cache \in GraphCaches
    /\ possible_states \in GraphPools
    /\ cur = State_new
    /\ other = State_new
    /\ res = NoRes
    /\ hist = NoHist

\* cache.graph(possible_states)
Graph ==
    /\ res = NoRes
    /\ \E r \in Cache_graph(cache, possible_states) :
          res' = [op |-> "graph", ret |-> r]
    /\ UNCHANGED <<cache, possible_states, reachable_states, cur, other, hist>>

NextGraph == Graph

SpecGraph == InitGraph /\ [][NextGraph]_vars

\* the cached firings at the states of the pool
Firings ==
    {<<x[2], cache[x[1]].actions[x[2]], x[1]>> :
        x \in {x \in (DOMAIN cache) \X (DOMAIN possible_states) :
                        /\ HasCondition(cache, x[1], x[2])
                        /\ cache[x[1]].condition[x[2]]
                        /\ HasAction(cache, x[1], x[2])}}

\* each cached successor of a state of the pool is in the pool
SuccessorsPooled ==
    \A n \in DOMAIN cache : \A h \in DOMAIN cache[n].actions \cap DOMAIN possible_states :
        cache[n].actions[h] \in DOMAIN possible_states

\* the sequence lists each element of S once and nothing else
ListsOnce(seq, S) ==
    /\ Range(seq) = S
    /\ Len(seq) = Cardinality(S)

\* C14: for a cache and a pool in which each cached successor of a pool state
\* is in the pool, Cache::graph returns Ok with one node per hash of the pool
\* and one edge (base_hash, successor_hash, rule_name) per cached firing.
C14_GraphOfClosedPool ==
    (res.op = "graph" /\ SuccessorsPooled) =>
        /\ res.ret.ok
        /\ ListsOnce(res.ret.val.nodes, DOMAIN possible_states)
        /\ ListsOnce(res.ret.val.edges, Firings)

\* C15: every edge (u, v, r) of a graph that Cache::graph returned has
\* condition(r, u) = true and action(r, u) = v in the cache and u and v in the
\* pool; self-loops and cycles are edges like the others.
C15_EdgesAreCachedFirings ==
    (res.op = "graph" /\ res.ret.ok) =>
        \A i \in DOMAIN res.ret.val.edges :
            LET e == res.ret.val.edges[i]
            IN  /\ HasCondition(cache, e[3], e[1])
                /\ cache[e[3]].condition[e[1]]
                /\ HasAction(cache, e[3], e[1])
                /\ cache[e[3]].actions[e[1]] = e[2]
                /\ e[1] \in DOMAIN possible_states
                /\ e[2] \in DOMAIN possible_states

\* a graph was returned that holds a self-loop and a cycle of two states
C15_Witness ==
    /\ res.op = "graph"
    /\ res.ret.ok
    /\ \E i \in DOMAIN res.ret.val.edges : res.ret.val.edges[i][1] = res.ret.val.edges[i][2]
    /\ \E i, j \in DOMAIN res.ret.val.edges :
          /\ res.ret.val.edges[i][1] # res.ret.val.edges[i][2]
          /\ res.ret.val.edges[j][1] = res.ret.val.edges[i][2]
          /\ res.ret.val.edges[j][2] = res.ret.val.edges[i][1]

\* C16: when an action entry of the cache names a successor hash that is not
\* in possible_states, Cache::graph returns an error.
C16_DanglingSuccessorIsError ==
    (/\ res.op = "graph"
     /\ \E n \in DOMAIN cache : \E h \in DOMAIN cache[n].actions :
           cache[n].actions[h] \notin DOMAIN possible_states)
        => ~res.ret.ok

(***************************************************************************)
(* SpecPool: the operations of PossibleStates                              *)
(***************************************************************************)
\* the pool holds at most MaxPool states
MaxPool == 3

\* the states appended: those of at most one entity and one parameter, of value 0
PoolStates == {s \in WorkerStates : ParamCount(s) <= 1}

InitPool ==
    /\ reachable_states = ReachableStates_new
    /\ possible_states = PossibleStates_new
    /\ cache = Cache_new
    /\ cur = State_new
    /\ other = State_new
    /\ res = NoRes
    /\ hist = NoHist

\* possible_states.append_state(StateHash::from_state(&state), state);
\* hist.pre keeps the pool before the call
AppendState ==
    \E state \in PoolStates :
        LET r == PossibleStates_append_state(possible_states,
                                             StateHash_from_state(state), state)
        IN  /\ res = NoRes
            /\ Cardinality(DOMAIN r.self) <= MaxPool
            /\ possible_states' = r.self
            /\ res' = [op |-> "append_state", state_hash |-> StateHash_from_state(state),
                       state |-> state, ret |-> r.ret]
            /\ hist' = [pre |-> possible_states, miss |-> None]
            /\ UNCHANGED <<cache, reachable_states, cur, other>>

\* the pool appended holds at most MaxOtherPool states
MaxOtherPool == 2

\* the pools appended, and their entries in every order iter can yield
OtherPools ==
    {[h \in {StateHash_from_state(s) : s \in K} |->
        CHOOSE s \in K : StateHash_from_state(s) = h] :
        K \in {K \in SUBSET PoolStates :
                 /\ Cardinality(K) <= MaxOtherPool
                 /\ \A s, t \in K : StateHash_from_state(s) = StateHash_from_state(t) => s = t}}
OtherPoolWrites == UNION {PossibleStates_iter(op) : op \in OtherPools}

\* possible_states.append_states(&states)
AppendStates ==
    \E writes \in OtherPoolWrites :
        LET r == PossibleStates_append_states(possible_states, writes)
        IN  /\ res = NoRes
            /\ Cardinality(DOMAIN r.self) <= MaxPool
            /\ possible_states' = r.self
            /\ res' = [op |-> "append_states", writes |-> writes, ret |-> r.ret]
            /\ hist' = [pre |-> possible_states, miss |-> None]
            /\ UNCHANGED <<cache, reachable_states, cur, other>>

\* a call that takes &self: state, contains, len, iter
PoolRead(op, arg, ret) ==
    /\ res = NoRes
    /\ res' = [op |-> op, arg |-> arg, ret |-> ret]
    /\ hist' = [pre |-> possible_states, miss |-> None]
    /\ UNCHANGED <<cache, possible_states, reachable_states, cur, other>>

PoolState ==
    \E s \in PoolStates :
        PoolRead("state", StateHash_from_state(s),
                 PossibleStates_state(possible_states, StateHash_from_state(s)))

PoolContains ==
    \E s \in PoolStates :
        PoolRead("contains", StateHash_from_state(s),
                 PossibleStates_contains(possible_states, StateHash_from_state(s)))

PoolLen == PoolRead("len", <<>>, PossibleStates_len(possible_states))

PoolIter == \E entries \in PossibleStates_iter(possible_states) : PoolRead("iter", <<>>, entries)

NextPool ==
    \/ AppendState \/ AppendStates
    \/ PoolState \/ PoolContains \/ PoolLen \/ PoolIter
    \/ Return

SpecPool == InitPool /\ [][NextPool]_vars

\* C20: append_state(hash, state) returns Ok and stores the pair when the hash
\* is absent; when the hash is present it returns the already-exists error,
\* also for a state equal to the stored one, and the pool is as before.
C20_AppendState ==
    res.op = "append_state" =>
        IF res.state_hash \notin DOMAIN hist.pre
        THEN /\ res.ret.ok
             /\ DOMAIN possible_states = DOMAIN hist.pre \cup {res.state_hash}
             /\ possible_states[res.state_hash] = res.state
             /\ \A h \in DOMAIN hist.pre : possible_states[h] = hist.pre[h]
        ELSE /\ ~res.ret.ok
             /\ res.ret.err.kind = "AlreadyExists"
             /\ possible_states = hist.pre

\* the state appended is the one the pool holds under the hash
C20_Witness ==
    /\ res.op = "append_state"
    /\ res.state_hash \in DOMAIN hist.pre
    /\ hist.pre[res.state_hash] = res.state
    /\ ~res.ret.ok

\* C21: whatever PossibleStates operation ran last (append_state,
\* append_states, state, iter, contains, len), every hash the pool held before
\* it is still there with the state it was inserted with: the pool only grows.
C21_PoolOnlyGrows ==
    res.op \in {"append_state", "append_states", "state", "iter", "contains", "len"} =>
        \A h \in DOMAIN hist.pre :
            /\ h \in DOMAIN possible_states
            /\ possible_states[h] = hist.pre[h]

\* another state with the hash of a stored one was appended
C21_Witness ==
    /\ res.op = "append_state"
    /\ res.state_hash \in DOMAIN hist.pre
    /\ hist.pre[res.state_hash] # res.state
    /\ possible_states[res.state_hash] # res.state

\* the hashes of the entries before the first one the receiver held
RECURSIVE FreshPrefix(_, _)
FreshPrefix(writes, held) ==
    IF writes = <<>> \/ writes[1][1] \in held THEN <<>>
    ELSE <<writes[1]>> \o FreshPrefix(Tail(writes), held)

\* C22: append_states(other) returns Ok exactly when no hash of other is in
\* the receiver, which then is the union of both; otherwise it returns the
\* already-exists error of the first insert that fails, the entries met
\* before that one appended.
C22_AppendStates ==
    res.op = "append_states" =>
        LET fresh == FreshPrefix(res.writes, DOMAIN hist.pre)
        IN  /\ res.ret.ok <=> {w[1] : w \in Range(res.writes)} \cap DOMAIN hist.pre = {}
            /\ DOMAIN possible_states = DOMAIN hist.pre \cup {w[1] : w \in Range(fresh)}
            /\ \A w \in Range(fresh) : possible_states[w[1]] = w[2]
            /\ \A h \in DOMAIN hist.pre : possible_states[h] = hist.pre[h]
            /\ res.ret.ok => Len(fresh) = Len(res.writes)
            /\ ~res.ret.ok =>
                  res.ret.err = [kind |-> "AlreadyExists",
                                 key |-> res.writes[Len(fresh) + 1][1],
                                 value |-> res.writes[Len(fresh) + 1][2]]

\* two pools hold the same state: the append fails after it appended another
C22_Witness ==
    /\ res.op = "append_states"
    /\ ~res.ret.ok
    /\ possible_states # hist.pre
    /\ hist.pre[res.ret.err.key] = res.ret.err.value

(***************************************************************************)
(* SpecReach: a caller appends to, merges into and reads a ReachableStates *)
(***************************************************************************)
\* the caller makes at most MaxReachCalls appending calls
MaxReachCalls == 3

\* the hashes the distribution is keyed by
ReachHashes == CacheHashes

\* the masses passed in: none, the smallest, a half, one, and more than one
MassArgs == {0, 1, One \div 2, One, (5 * One) \div 4}

\* the entries of every distribution merged in, in every iteration order
ReachWrites ==
    UNION {{[i \in 1..Len(o) |-> <<o[i], m[o[i]]>>] : o \in Orderings(DOMAIN m)} :
              m \in PartialMaps(ReachHashes, MassArgs)}

\* the real-number sums of the masses passed in so far, per hash
RECURSIVE AddExact(_, _)
AddExact(exact, writes) ==
    IF writes = <<>> THEN exact
    ELSE AddExact(MapPut(exact, writes[1][1],
                         IF writes[1][1] \in DOMAIN exact
                         THEN exact[writes[1][1]] + writes[1][2]
                         ELSE writes[1][2]),
                  Tail(writes))

\* some addition of the call is not exact
Rounds(rs, writes) ==
    \E i \in 1..Len(writes) :
        /\ writes[i][1] \in DOMAIN rs
        /\ RoundToFloat(rs[writes[i][1]] + writes[i][2]) # rs[writes[i][1]] + writes[i][2]

InitReach ==
    /\ reachable_states = ReachableStates_new
    /\ cache = Cache_new
    /\ possible_states = PossibleStates_new
    /\ cur = State_new
    /\ other = Cache_new
    /\ res = NoRes
    /\ hist = [pre |-> ReachableStates_new, exact |-> EmptyMap, rounded |-> FALSE,
               merging |-> TRUE, calls |-> 0]

Appended(op, writes, r) ==
    /\ reachable_states' = r.self
    /\ res' = [op |-> op, writes |-> writes, ret |-> r.ret]
    /\ hist' = [pre |-> reachable_states,
                exact |-> AddExact(hist.exact, writes),
                rounded |-> hist.rounded \/ Rounds(reachable_states, writes),
                merging |-> hist.merging /\ op = "append_states",
                calls |-> hist.calls + 1]
    /\ UNCHANGED <<cache, possible_states, cur, other>>

\* reachable_states.append_state(state_hash, state_probability)
ReachAppendState ==
    /\ res = NoRes
    /\ hist.calls < MaxReachCalls
    /\ \E state_hash \in ReachHashes, state_probability \in MassArgs :
          Appended("append_state", <<<<state_hash, state_probability>>>>,
                   ReachableStates_append_state(reachable_states, state_hash,
                                                state_probability))

\* reachable_states.append_states(&states)
ReachAppendStates ==
    /\ res = NoRes
    /\ hist.calls < MaxReachCalls
    /\ \E writes \in ReachWrites :
          Appended("append_states", writes,
                   ReachableStates_append_states(reachable_states, writes))

ReachRead(op, ret) ==
    /\ res = NoRes
    /\ res' = [op |-> op, ret |-> ret]
    /\ UNCHANGED <<cache, possible_states, reachable_states, cur, other, hist>>

\* reachable_states.probability_sum()
ReachProbabilitySum ==
    \E ret \in ReachableStates_probability_sum(reachable_states) :
        ReachRead("probability_sum", ret)

\* reachable_states.entropy(), for masses whose logarithm is a whole number
ReachEntropy ==
    /\ \A h \in DOMAIN reachable_states :
          reachable_states[h] = 0 \/ HasExactLog2(reachable_states[h])
    /\ \E ret \in ReachableStates_entropy(reachable_states) :
          ReachRead("entropy", ret)

\* the call returns to the caller
ReachReturn ==
    /\ res # NoRes
    /\ res' = NoRes
    /\ UNCHANGED <<cache, possible_states, reachable_states, cur, other, hist>>

NextReach ==
    \/ ReachAppendState \/ ReachAppendStates
    \/ ReachProbabilitySum \/ ReachEntropy
    \/ ReachReturn

SpecReach == InitReach /\ [][NextReach]_vars

\* C23: append_state(hash, p) stores p at an absent hash and adds p to the
\* mass of a present hash; when the sum at a present hash exceeds 1 it returns
\* the out-of-range error and the distribution is as it was before the call
C23_AppendState ==
    res.op = "append_state" =>
        LET state_hash == res.writes[1][1]
            state_probability == res.writes[1][2]
            pre == hist.pre
        IN  IF state_hash \notin DOMAIN pre
            THEN /\ res.ret = Ok(<<>>)
                 /\ reachable_states = MapPut(pre, state_hash, state_probability)
            ELSE IF RoundToFloat(pre[state_hash] + state_probability) > One
            THEN /\ ~res.ret.ok
                 /\ res.ret.err.kind = "OutOfRange"
                 /\ reachable_states = pre
            ELSE /\ res.ret = Ok(<<>>)
                 /\ DOMAIN reachable_states = DOMAIN pre
                 /\ \A h \in DOMAIN pre :
                       reachable_states[h] =
                           IF h = state_hash
                           THEN RoundToFloat(pre[h] + state_probability)
                           ELSE pre[h]

\* an append_state that failed on a distribution of two states
C23_Witness ==
    /\ res.op = "append_state"
    /\ ~res.ret.ok
    /\ Cardinality(DOMAIN hist.pre) = 2
    /\ reachable_states = hist.pre

\* C24: the mass stored at every state is at most 1 after any sequence of
\* append_state and append_states calls from the empty distribution
C24_MassAtMostOne ==
    \A h \in DOMAIN reachable_states : reachable_states[h] <= One

\* the real-number sum of the masses of a distribution
RECURSIVE MassTotal(_)
MassTotal(m) ==
    IF DOMAIN m = {} THEN 0
    ELSE LET h == CHOOSE k \in DOMAIN m : TRUE
         IN  m[h] + MassTotal([k \in DOMAIN m \ {h} |-> m[k]])

\* only append_states was called, and the partial masses passed in for each
\* hash sum to at most 1
MergedWithinOne ==
    /\ hist.merging
    /\ \A h \in DOMAIN hist.exact : hist.exact[h] <= One

\* C25 as stated: when no per-state sum exceeds 1, the distribution merged
\* from partial distributions holds at each hash the sum of the partial masses
\* at that hash, whatever the order of merging, and probability_sum returns the
\* sum of all the partial masses
C25_KeyWiseExactSum ==
    MergedWithinOne =>
        /\ reachable_states = hist.exact
        /\ res.op = "probability_sum" => res.ret = MassTotal(hist.exact)

\* C25: when no per-state sum exceeds 1 and no addition of the merges is
\* rounded, the merged distribution holds at each hash the sum of the partial
\* masses at that hash, whatever the order of merging, and probability_sum
\* returns the floating-point sum of the masses
C25_KeyWiseFloatSum ==
    (MergedWithinOne /\ ~hist.rounded) =>
        /\ reachable_states = hist.exact
        /\ res.op = "probability_sum" =>
              res.ret = RoundToFloat(MassTotal(hist.exact))

\* three partial distributions merged without rounding, two of them with
\* positive mass at the same hash, and the sum read
C25_Witness ==
    /\ res.op = "probability_sum"
    /\ MergedWithinOne
    /\ ~hist.rounded
    /\ hist.calls = 3
    /\ Cardinality(DOMAIN reachable_states) = 2
    /\ \E h \in DOMAIN reachable_states : reachable_states[h] = 2

\* -p * log2(p) of the mass x / One as a real number, in units of 1/One bit;
\* 0 for the mass 0
ShannonTerm(x) ==
    IF x = 0 THEN 0 ELSE x * ((MantissaBits + 1) - (BitLength(x) - 1))

\* C26: entropy returns the Shannon entropy in bits, the sum of -p * log2(p)
\* over all entries with an entry of mass 0 adding 0: 0 for the empty
\* distribution and for one state of mass 1, and 1 for two states of mass 1/2
C26_Entropy ==
    res.op = "entropy" =>
        /\ res.ret = RoundToFloat(MassTotal([h \in DOMAIN reachable_states |->
                                               ShannonTerm(reachable_states[h])]))
        /\ reachable_states = ReachableStates_new => res.ret = 0
        /\ (\E h \in ReachHashes : reachable_states = MapPut(EmptyMap, h, One)) =>
              res.ret = 0
        /\ (/\ DOMAIN reachable_states = ReachHashes
            /\ \A h \in ReachHashes : reachable_states[h] = One \div 2) => res.ret = One

\* the entropy of two states of mass 1/2 each was read, and it is 1 bit
C26_Witness ==
    /\ res.op = "entropy"
    /\ DOMAIN reachable_states = ReachHashes
    /\ \A h \in ReachHashes : reachable_states[h] = One \div 2
    /\ res.ret = One

(***************************************************************************)
(* SpecStep: advance-steps from one state of mass 1 and an empty cache     *)
(***************************************************************************)
\* the driver makes at most MaxSteps steps
MaxSteps == 2
\* and steps from distributions of at most MaxBases states
MaxBases == 2

\* the weights of the rules of the steps: none, a quarter, a half, one
StepWeights == {0, One \div 4, One \div 2, One}

\* the rules of the steps
StepRules ==
    {Rule_new(c, w, a) :
        c \in {[tag |-> "Always"], [tag |-> "Never"], [tag |-> "Function", f |-> "has_A"]},
        w \in StepWeights,
        a \in {[tag |-> "None"],
               [tag |-> "InsertEntity", entity_name |-> "A",
                entity |-> <<<<"p", MaxValue>>>>],
               [tag |-> "InsertEntity", entity_name |-> "B",
                entity |-> <<<<"p", MaxValue>>>>],
               [tag |-> "SetParameter", entity_name |-> "A", parameter |-> "p",
                parameter_value |-> 0],
               [tag |-> "SetParameter", entity_name |-> "B", parameter |-> "p",
                parameter_value |-> 0]}}

\* what the three collections held
Collections == [cache |-> cache, possible_states |-> possible_states,
                reachable_states |-> reachable_states]

\* R = {h0: 1} with h0 the hash of the empty state, which the pool holds; the
\* cache is empty; hist.config holds the rule set and the convention of the run
InitStep ==
    /\ cache = Cache_new
    /\ possible_states = MapPut(PossibleStates_new, StateHash_from_state(State_new), State_new)
    /\ reachable_states = MapPut(ReachableStates_new, StateHash_from_state(State_new), One)
    /\ cur = State_new
    /\ other = Cache_new
    /\ res = NoRes
    /\ \E rules \in [RuleNames -> StepRules], convention \in Conventions :
          hist = [pre |-> [cache |-> Cache_new, possible_states |-> PossibleStates_new,
                           reachable_states |-> ReachableStates_new],
                  config |-> [rules |-> rules, residual_mass_convention |-> convention],
                  steps |-> 0]

\* one advance-step
Step ==
    /\ hist.steps < MaxSteps
    /\ Cardinality(DOMAIN reachable_states) <= MaxBases
    /\ \E out \in AdvanceStep(cache, possible_states, reachable_states, hist.config) :
          /\ cache' = out.cache
          /\ possible_states' = out.possible_states
          /\ reachable_states' = out.reachable_states
          /\ res' = [op |-> "step", ret |-> out.ret, batch |-> out.batch, sum |-> out.sum]
          /\ hist' = [hist EXCEPT !.pre = Collections, !.steps = @ + 1]
          /\ UNCHANGED <<cur, other>>

NextStep == Step

SpecStep == InitStep /\ [][NextStep]_vars

\* the step succeeded
StepOk == res.op = "step" /\ res.ret.ok

\* the step failed in the given phase
StepFailed(phase) == res.op = "step" /\ ~res.ret.ok /\ res.ret.err.phase = phase

\* the total weight of the applicable rules of the given bases of the step
TotalWeights == {WeightSum(f.applicable) : f \in res.batch.fired}

\* a value probability_sum can return for the distribution is within Epsilon
\* of 1
TotalIsOne(rs) ==
    \E sum \in ReachableStates_probability_sum(rs) :
        sum - One <= Epsilon /\ One - sum <= Epsilon

\* C27: a successful advance-step from a distribution of total mass 1 leaves
\* a distribution of total mass 1, whatever the weights of the rules: the
\* total that probability_sum computed for the new distribution is within
\* Epsilon of 1
C27_MassConserved ==
    (StepOk /\ TotalIsOne(hist.pre.reachable_states)) =>
        /\ Unwrap(res.sum) \in ReachableStates_probability_sum(reachable_states)
        /\ Unwrap(res.sum) - One <= Epsilon
        /\ One - Unwrap(res.sum) <= Epsilon

\* a successful second step from two base states of positive mass, one with
\* applicable rules of total weight below 1 and one with total weight above 1
C27_Witness ==
    /\ StepOk
    /\ hist.steps = 2
    /\ TotalIsOne(hist.pre.reachable_states)
    /\ Cardinality(res.batch.fired) = 2
    /\ \E f \in res.batch.fired :
          f.mass > 0 /\ WeightSum(f.applicable) > 0 /\ WeightSum(f.applicable) < One
    /\ \E f \in res.batch.fired : f.mass > 0 /\ WeightSum(f.applicable) > One

\* a step whose applicable rules weigh more than 1 in total failed its verification
StepOverweightRejected ==
    /\ StepFailed("verify")
    /\ \E w \in TotalWeights : w > One

\* the loop of the step ran to its end: res.batch is what it built
StepLooped == res.op = "step" /\ (res.ret.ok \/ res.ret.err.phase # "loop")

\* the names of the rules that apply to a state: weight not 0, condition true
ApplicableNames(state) ==
    {n \in RuleNames :
        /\ hist.config.rules[n].weight # 0
        /\ EvalCondition(hist.config.rules[n].condition, state)}

\* what the step should deposit, as <<base hash, index of the applicable rule
\* or 0 for the residual, hash deposited at, mass * weight in units of
\* 1/One^2>>
Contributions ==
    UNION {{<<f.base_hash, i, f.applicable[i].new_hash, f.mass * f.applicable[i].weight>> :
               i \in 1..Len(f.applicable)}
           \cup {<<f.base_hash, 0, f.base_hash,
                   IF f.applicable = <<>> THEN f.mass * One
                   ELSE f.mass * (One - WeightSum(f.applicable))>>} :
           f \in res.batch.fired}

RECURSIVE SumOfContributions(_)
SumOfContributions(S) ==
    IF S = {} THEN 0
    ELSE LET x == CHOOSE y \in S : TRUE
         IN  x[4] + SumOfContributions(S \ {x})

\* no product and no sum of the deposits is rounded: every contribution is a
\* whole number of the largest spacing of the masses up to 1
DepositsExact ==
    \A x \in Contributions : x[4] % (One * (One \div 2 ^ MantissaBits)) = 0

StepTwoBasesExact ==
    /\ StepOk
    /\ hist.steps = 2
    /\ DepositsExact
    /\ Cardinality(res.batch.fired) = 2
    /\ \A f \in res.batch.fired : f.mass > 0 /\ f.applicable # <<>> /\ WeightSum(f.applicable) < One

\* the entries of the cache that the updates of the step's batch write
BatchEntries ==
    {IF u.kind = "condition"
     THEN [kind |-> "condition", rule_name |-> u.update.rule_name,
           base_state_hash |-> u.update.base_state_hash, value |-> u.update.applies]
     ELSE [kind |-> "action", rule_name |-> u.update.rule_name,
           base_state_hash |-> u.update.base_state_hash, value |-> u.update.new_state_hash] :
     u \in Range(res.batch.updates)}

\* C29: a step that fails in its per-base loop leaves the cache, the pool and
\* the distribution as they were; a step that succeeds commits together the
\* new distribution, every cache update and every new state of its batch
C29_AllOrNothing ==
    /\ StepFailed("loop") => Collections = hist.pre
    /\ StepOk =>
          /\ reachable_states = res.batch.new
          /\ EntryRecords(cache) = EntryRecords(hist.pre.cache) \cup BatchEntries
          /\ DOMAIN possible_states =
                 DOMAIN hist.pre.possible_states \cup {x[1] : x \in Range(res.batch.inserts)}
          /\ \A x \in Range(res.batch.inserts) :
                State_eq(possible_states[x[1]], x[2])
          /\ \A h \in DOMAIN hist.pre.possible_states :
                possible_states[h] = hist.pre.possible_states[h]

\* a second step failed in its loop and left a cache with entries, a pool of
\* two states and the distribution as they were
C29_Witness ==
    /\ StepFailed("loop")
    /\ hist.steps = 2
    /\ hist.pre.cache # Cache_new
    /\ Cardinality(DOMAIN hist.pre.possible_states) = 2
    /\ Collections = hist.pre

\* a step succeeded that wrote cache entries and inserted a new state
StepCommitted ==
    /\ StepOk
    /\ BatchEntries \ EntryRecords(hist.pre.cache) # {}
    /\ DOMAIN possible_states # DOMAIN hist.pre.possible_states
    /\ reachable_states # hist.pre.reachable_states

\* C30: after any number of advance-steps from an empty cache, the cache holds
\* an action entry for (rule, base hash) exactly when it holds the condition
\* entry true for it; a Never rule has condition entries false and no action
\* entry
C30_ActionIffConditionTrue ==
    /\ \A n \in RuleNames, h \in DOMAIN possible_states :
          HasAction(cache, n, h) <=> (HasCondition(cache, n, h) /\ cache[n].condition[h])
    /\ \A n \in DOMAIN cache :
          /\ DOMAIN cache[n].condition \cup DOMAIN cache[n].actions \subseteq
                 DOMAIN possible_states
          /\ hist.config.rules[n].condition.tag = "Never" =>
                /\ \A h \in DOMAIN cache[n].condition : ~cache[n].condition[h]
                /\ DOMAIN cache[n].actions = {}

\* after two steps the cache holds, for one rule, the condition true and an
\* action at two base hashes, and for a Never rule the condition false at two
\* base hashes and no action
C30_Witness ==
    /\ StepOk
    /\ hist.steps = 2
    /\ \E n \in DOMAIN cache :
          /\ Cardinality(DOMAIN cache[n].actions) = 2
          /\ \A h \in DOMAIN cache[n].actions : cache[n].condition[h]
    /\ \E n \in DOMAIN cache :
          /\ hist.config.rules[n].condition.tag = "Never"
          /\ Cardinality(DOMAIN cache[n].condition) = 2
          /\ DOMAIN cache[n].actions = {}

\* a step answered a rule from the cache: the rule applied and returned no update
StepHitCache ==
    /\ StepOk
    /\ \E f \in res.batch.fired :
          \E i \in 1..Len(f.applicable) :
              \A u \in Range(res.batch.updates) :
                  ~(u.update.rule_name = f.applicable[i].rule_name
                    /\ u.update.base_state_hash = f.base_hash)

(***************************************************************************)
(* SpecBorrow: Rule::applies and Rule::apply called on a cache and a pool  *)
(* that take the returned updates between the calls                        *)
(***************************************************************************)
\* the rules called: those of the workers, a Never rule and a rule of weight 0
BorrowRules ==
    WorkerRules \cup {Rule_new([tag |-> "Never"], 10, [tag |-> "None"]),
                      Rule_new([tag |-> "Always"], 0, [tag |-> "None"])}

InitBorrow ==
    /\ reachable_states = ReachableStates_new
    /\ cur \in WorkerStates
    /\ cache = Cache_new
    /\ possible_states = PossibleStates_new
    /\ other = State_new
    /\ res = NoRes
    /\ hist = [pre |-> [cache |-> Cache_new, possible_states |-> PossibleStates_new]]

\* rule.applies(&cache, rule_name, cur.clone())
BorrowApplies ==
    /\ res = NoRes
    /\ \E rule \in BorrowRules, rule_name \in RuleNames :
          \E out \in Rule_applies_call(rule, cache, possible_states, rule_name, cur) :
              /\ cache' = out.cache
              /\ possible_states' = out.possible_states
              /\ res' = [op |-> "applies", rule |-> rule, rule_name |-> rule_name,
                         hit |-> HasCondition(cache, rule_name, StateHash_from_state(cur)),
                         ret |-> out.ret]
              /\ hist' = [pre |-> [cache |-> cache, possible_states |-> possible_states]]
              /\ UNCHANGED <<reachable_states, cur, other>>

\* rule.apply(&cache, &possible_states, rule_name, hash of cur, cur.clone())
BorrowApply ==
    /\ res = NoRes
    /\ \E rule \in BorrowRules, rule_name \in RuleNames :
          \E out \in Rule_apply_call(rule, cache, possible_states, rule_name,
                                     StateHash_from_state(cur), cur) :
              /\ cache' = out.cache
              /\ possible_states' = out.possible_states
              /\ res' = [op |-> "apply", rule |-> rule, rule_name |-> rule_name,
                         hit |-> HasAction(cache, rule_name, StateHash_from_state(cur)),
                         ret |-> out.ret]
              /\ hist' = [pre |-> [cache |-> cache, possible_states |-> possible_states]]
              /\ UNCHANGED <<reachable_states, cur, other>>

\* the caller applies the update the last call returned; with_state, it also
\* inserts the new state of an apply into the pool
TakeReturned(with_state) ==
    /\ res # NoRes
    /\ res.ret.ok
    /\ IsSome(res.ret.val.update)
    /\ EntryCount(cache) < MaxCommits
    /\ cache' = IF res.op = "applies"
                THEN Cache_apply_condition_update(cache, Unwrap(res.ret.val.update)).self
                ELSE Cache_apply_action_update(cache, Unwrap(res.ret.val.update)).self
    /\ possible_states' =
          IF res.op = "apply" /\ with_state
          THEN PossibleStates_append_state(possible_states,
                   StateHash_from_state(res.ret.val.state), res.ret.val.state).self
          ELSE possible_states
    /\ res' = NoRes
    /\ UNCHANGED <<reachable_states, cur, other, hist>>

\* the caller drops what the last call returned
BorrowDrop ==
    /\ res # NoRes
    /\ res' = NoRes
    /\ UNCHANGED <<cache, possible_states, reachable_states, cur, other, hist>>

NextBorrow ==
    \/ BorrowApplies \/ BorrowApply
    \/ TakeReturned(TRUE) \/ TakeReturned(FALSE)
    \/ BorrowDrop

SpecBorrow == InitBorrow /\ [][NextBorrow]_vars

\* C31: Rule::applies and Rule::apply leave the cache and the pool as they
\* were, on a hit, on a miss and on an error; the update they return is Some
\* only on a miss
C31_CallsOnlyRead ==
    res.op \in {"applies", "apply"} =>
        /\ cache = hist.pre.cache
        /\ possible_states = hist.pre.possible_states
        /\ (res.ret.ok /\ IsSome(res.ret.val.update)) => ~res.hit

\* an apply failed on a hit, the successor missing from the pool, and left
\* the cache with its entry and the pool as they were
C31_Witness ==
    /\ res.op = "apply"
    /\ res.hit
    /\ ~res.ret.ok
    /\ cache # Cache_new
    /\ cache = hist.pre.cache
    /\ possible_states = hist.pre.possible_states

\* an apply returned an update on a miss
BorrowApplyMissed ==
    res.op = "apply" /\ ~res.hit /\ res.ret.ok /\ IsSome(res.ret.val.update)

\* an apply failed on a miss
BorrowApplyMissFailed == res.op = "apply" /\ ~res.hit /\ ~res.ret.ok

\* an applies returned the cached condition
BorrowAppliesHit == res.op = "applies" /\ res.hit /\ res.ret.val.update = None

\* C32: after any number of advance-steps from an empty cache and a pool that
\* holds the states of the first distribution, every successor hash of an
\* action entry of the cache and every hash of the distribution is a key of
\* the pool, and no step fails with a missing state
C32_SuccessorsPooled ==
    /\ \A n \in DOMAIN cache :
          \A h \in DOMAIN cache[n].actions : cache[n].actions[h] \in DOMAIN possible_states
    /\ DOMAIN reachable_states \subseteq DOMAIN possible_states
    /\ (res.op = "step" /\ ~res.ret.ok) => res.ret.err.error.kind # "StateNotFound"

\* a second step took from the cache a successor other than the first state,
\* which the first step had inserted into the pool
C32_Witness ==
    /\ StepOk
    /\ hist.steps = 2
    /\ \E f \in res.batch.fired :
          \E i \in 1..Len(f.applicable) :
              /\ HasAction(hist.pre.cache, f.applicable[i].rule_name, f.base_hash)
              /\ f.applicable[i].new_hash # f.base_hash
              /\ f.applicable[i].new_hash \in DOMAIN hist.pre.possible_states
              /\ f.mass > 0

\* C33: when Cache::merge returns an error, every entry and every rule the
\* receiver held before the call is still there with its value, and what the
\* call added are entries of the other cache that did not conflict
C33_FailedMergeKeepsEntries ==
    (res.op = "merge" /\ ~res.ret.ok) =>
        /\ DOMAIN hist.pre \subseteq DOMAIN cache
        /\ EntryRecords(hist.pre) \subseteq EntryRecords(cache)
        /\ EntryRecords(cache) \ EntryRecords(hist.pre) \subseteq res.entries \ MergeConflicts

\* a merge failed after it had added an entry to a receiver that held one
C33_Witness ==
    /\ res.op = "merge"
    /\ ~res.ret.ok
    /\ EntryRecords(hist.pre) # {}
    /\ EntryRecords(cache) \ EntryRecords(hist.pre) # {}

(***************************************************************************)
(* SpecSetFunction: the arm of Action::SetFunction in Rule::apply, at      *)
(* every state and under every iteration order of the mutation set         *)
(***************************************************************************)
\* the functions the actions hold: those of MutationFns and one that writes
\* a different value to each entity
SetFunctions == MutationFns \cup {"raise_A_clear_B"}

\* at most MaxSetFunctionCalls applications are made in a row
MaxSetFunctionCalls == 2

InitSetFunction ==
    /\ reachable_states = ReachableStates_new
    /\ cur \in State
    /\ cache = Cache_new
    /\ possible_states = PossibleStates_new
    /\ other = State_new
    /\ res = NoRes
    /\ hist = [calls |-> 0]

\* the for loop over get_mutations(base_state), the map iterated in the
\* order `targets`
ApplySetFunction ==
    /\ res = NoRes
    /\ hist.calls < MaxSetFunctionCalls
    /\ hist' = [calls |-> hist.calls + 1]
    /\ \E f \in SetFunctions :
        LET mutations == CallMutations(f, cur)
        IN  \E targets \in Orderings(DOMAIN mutations) :
                res' = [op |-> "set_function", f |-> f, base_state |-> cur,
                        mutations |-> mutations, targets |-> targets,
                        ret |-> SetFunctionLoop(cur, mutations, targets)]
    /\ UNCHANGED <<cache, possible_states, reachable_states, cur, other>>

\* the new state becomes the next base state
TakeNewState ==
    /\ res.op = "set_function"
    /\ res.ret.ok
    /\ cur' = res.ret.val
    /\ res' = NoRes
    /\ UNCHANGED <<cache, possible_states, reachable_states, other, hist>>

\* the result is dropped
DropNewState ==
    /\ res.op = "set_function"
    /\ res' = NoRes
    /\ UNCHANGED <<cache, possible_states, reachable_states, cur, other, hist>>

NextSetFunction == ApplySetFunction \/ TakeNewState \/ DropNewState

SpecSetFunction == InitSetFunction /\ [][NextSetFunction]_vars

\* the assignments one run of the loop makes, in the order it makes them
Assignments ==
    [i \in 1..Len(res.targets) |->
        <<res.targets[i], res.mutations[res.targets[i]][1], res.mutations[res.targets[i]][2]>>]

\* the base state with every assignment of the mutation set made at once
AssignedAtOnce ==
    [i \in DOMAIN res.base_state |->
        LET n == res.base_state[i][1]
            e == res.base_state[i][2]
        IN  IF n \in DOMAIN res.mutations
            THEN <<n, [j \in DOMAIN e |->
                          IF e[j][1] = res.mutations[n][1]
                          THEN <<e[j][1], res.mutations[n][2]>> ELSE e[j]]>>
            ELSE res.base_state[i]]

\* C34: one application of an Action::SetFunction makes one assignment for
\* each entity of its mutation set, so no two of its assignments write the
\* same parameter of the same entity, and the new state is the same under
\* every order of the assignments: the base state with all of them made
C34_OneAssignmentPerEntity ==
    res.op = "set_function" =>
        /\ Len(Assignments) = Cardinality(DOMAIN res.mutations)
        /\ \A i, j \in DOMAIN Assignments :
              i # j => <<Assignments[i][1], Assignments[i][2]>> #
                       <<Assignments[j][1], Assignments[j][2]>>
        /\ \A r \in NewStates([tag |-> "SetFunction", f |-> res.f], res.base_state) :
              /\ r.ok = res.ret.ok
              /\ r.ok => r = res.ret
        /\ res.ret.ok => res.ret.val = AssignedAtOnce

\* two entities were assigned different values and the state changed
C34_Witness ==
    /\ res.op = "set_function"
    /\ res.ret.ok
    /\ Len(res.targets) = 2
    /\ res.mutations[res.targets[1]] # res.mutations[res.targets[2]]
    /\ res.ret.val[1] # res.base_state[1]
    /\ res.ret.val[2] # res.base_state[2]

====
